---- MODULE Spec2Model ----
(***************************************************************************)
(* HelloAPI: the parse route, its format dispatcher, the two normalizers   *)
(* (OpenAPI/Swagger documents and free text) and the consumers of the      *)
(* canonical ApiSpec.                                                      *)
(*                                                                         *)
(* A JavaScript string is a sequence of tokens; in a path or a name the    *)
(* characters the code tests or replaces one at a time ("/", "{", "}",     *)
(* ":", ".", "_") are tokens of their own.  A decoded JSON/YAML value is a *)
(* tagged record; an object is an ordered list of key/value entries.       *)
(***************************************************************************)
EXTENDS Integers, Sequences, FiniteSets, TLC

VARIABLES
    reqContent,        \* the content of the request being served
    reqType,           \* its type: "openapi", "text" or "auto"
    pc,                \* where the exchange stands
    normalizer,        \* the normalizer the last call ran, "none" before any
    parseResult,       \* what that call returned or threw
    response,          \* the HTTP response in flight
    ctxSpec,           \* ApiContext: spec
    notices,           \* ApiContext: warnings and todos
    artifacts,         \* ApiContext: artifacts
    learningPaths,     \* ApiContext: learningPaths
    selectedEndpoint,  \* ApiContext: the index in spec.endpoints of the selection, 0 for null
    error,             \* ApiContext: error
    genSpec,           \* the spec the generate route received
    output,            \* what the last component rendered from
    lastOp             \* the operation that ran last

vars == <<reqContent, reqType, pc, normalizer, parseResult, response, ctxSpec, notices,
          artifacts, learningPaths, selectedEndpoint, error, genSpec, output, lastOp>>

-----------------------------------------------------------------------------
(* Bounds of the input families *)

MaxSchemes == 2
MaxServers == 2
MaxSecuritySchemes == 2
MaxPaths == 2
MaxSegments == 2
MaxCues == 2

-----------------------------------------------------------------------------
(* JavaScript values *)

Undef == [t |-> "undefined"]
Null == [t |-> "null"]
Str(s) == [t |-> "string", s |-> s]
Num(n) == [t |-> "number", n |-> n]
Bool(b) == [t |-> "boolean", b |-> b]
Arr(xs) == [t |-> "array", xs |-> xs]
Obj(kv) == [t |-> "object", kv |-> kv]

\* an entry of an object; a key is a string
E(k, v) == [k |-> <<k>>, v |-> v]
\* an entry whose key is a multi-token string (a path)
EP(k, v) == [k |-> k, v |-> v]

IsNullish(v) == v.t \in {"undefined", "null"}

Truthy(v) ==
    CASE v.t \in {"undefined", "null"} -> FALSE
      [] v.t = "string" -> v.s # <<>>
      [] v.t = "number" -> v.n # 0
      [] v.t = "boolean" -> v.b
      [] OTHER -> TRUE

\* a || b
OrElse(a, b) == IF Truthy(a) THEN a ELSE b

SeqToSet(s) == {s[i] : i \in DOMAIN s}

\* v[k] for a value that is not null or undefined
GetK(v, k) ==
    IF v.t = "object" /\ \E i \in DOMAIN v.kv : v.kv[i].k = k
    THEN v.kv[CHOOSE i \in DOMAIN v.kv :
                  v.kv[i].k = k /\ \A j \in DOMAIN v.kv : v.kv[j].k = k => i <= j].v
    ELSE Undef

\* v.name
Get(v, name) == GetK(v, <<name>>)

\* v?.name
GetOpt(v, name) == IF IsNullish(v) THEN Undef ELSE Get(v, name)

\* v[0]
Index0(v) ==
    CASE v.t = "array" -> IF v.xs = <<>> THEN Undef ELSE v.xs[1]
      [] v.t = "string" -> IF v.s = <<>> THEN Undef ELSE Str(<<v.s[1]>>)
      [] OTHER -> Undef

\* v.length > 0
LengthPositive(v) ==
    CASE v.t = "array" -> v.xs # <<>>
      [] v.t = "string" -> v.s # <<>>
      [] OTHER -> FALSE

\* !!v?.length
HasLength(v) == ~IsNullish(v) /\ LengthPositive(v)

\* Object.keys(v), Object.values(v), Object.entries(v)
Entries(v) == IF v.t = "object" THEN v.kv ELSE <<>>
Keys(v) == [i \in DOMAIN Entries(v) |-> Entries(v)[i].k]
Values(v) == [i \in DOMAIN Entries(v) |-> Entries(v)[i].v]

\* a value in a template string
ToStr(v) ==
    CASE v.t = "undefined" -> <<"undefined">>
      [] v.t = "null" -> <<"null">>
      [] v.t = "string" -> v.s
      [] v.t = "number" -> <<"<number>">>
      [] v.t = "boolean" -> IF v.b THEN <<"true">> ELSE <<"false">>
      [] v.t = "array" -> <<"<array>">>
      [] OTHER -> <<"[object Object]">>

\* String.prototype.toLowerCase on the tokens the inputs use
LowerTok(tok) ==
    CASE tok = "apiKey" -> "apikey"
      [] tok = "HTTP" -> "http"
      [] tok = "Bearer" -> "bearer"
      [] tok = "OAuth2" -> "oauth2"
      [] tok = "pageSize" -> "pagesize"
      [] tok = "mutualTLS" -> "mutualtls"
      [] tok = "Limit" -> "limit"
      [] tok = "GET" -> "get"
      [] tok = "POST" -> "post"
      [] tok = "PUT" -> "put"
      [] tok = "PATCH" -> "patch"
      [] tok = "DELETE" -> "delete"
      [] OTHER -> tok

ToLowerCase(s) == [i \in DOMAIN s |-> LowerTok(s[i])]

\* String.prototype.toUpperCase on method tokens
UpperTok(tok) ==
    CASE tok = "get" -> "GET"
      [] tok = "post" -> "POST"
      [] tok = "put" -> "PUT"
      [] tok = "patch" -> "PATCH"
      [] tok = "delete" -> "DELETE"
      [] OTHER -> tok

\* s.replace(/[chars]/g, '_')
ReplaceChars(s, chars) == [i \in DOMAIN s |-> IF s[i] \in chars THEN "_" ELSE s[i]]

RECURSIVE Flatten(_)
\* the concatenation of a sequence of sequences
Flatten(ss) == IF ss = <<>> THEN <<>> ELSE Head(ss) \o Flatten(Tail(ss))

Last(s) == s[Len(s)]

-----------------------------------------------------------------------------
(* Results of a call: a value or a thrown error.  The messages are the     *)
(* source's, with its em dashes written "-".                                *)

ParseErrorMessage == "Could not parse input as JSON or YAML"
TypeErrorMessage == "TypeError"

Thrown(msg) == [ok |-> FALSE, error |-> msg]
Returned(s, w, t) == [ok |-> TRUE, spec |-> s, warnings |-> w, todos |-> t]

Placeholder == <<"https", "://", "api.example.com">>

TodoBaseUrlOpenApi == "TODO: Base URL could not be determined - please set it manually."
TodoBaseUrlText == "TODO: Base URL could not be determined from the text - please provide it."
WarnNoSecurity == "No security schemes found - API might be public or auth docs are missing."
WarnNoAuthText == "Authentication method could not be determined from the text."
WarnNoEndpoints == "No endpoints could be extracted from the documentation text."
TodoNoEndpoints == "TODO: Manually add endpoint definitions - the parser could not detect any."

-----------------------------------------------------------------------------
(* The structured normalizer: base URL *)

EmptyStr == Str(<<>>)

\* servers[0].url reads a property of servers[0]
extractBaseUrlThrows(doc, isSwagger2) ==
    /\ ~isSwagger2
    /\ LET servers == Get(doc, "servers")
       IN Truthy(servers) /\ LengthPositive(servers) /\ IsNullish(Index0(servers))

\* s.replace(/\/+$/, '')
RECURSIVE StripTrailingSlashes(_)
StripTrailingSlashes(s) ==
    IF s # <<>> /\ Last(s) = "/" THEN StripTrailingSlashes(SubSeq(s, 1, Len(s) - 1)) ELSE s

\* a variant that drops the slashes a server URL ends with
extractBaseUrlTrimmed(doc, isSwagger2) ==
    IF isSwagger2
    THEN LET host == Get(doc, "host")
             basePath == OrElse(Get(doc, "basePath"), EmptyStr)
             schemes == OrElse(Get(doc, "schemes"), Arr(<<Str(<<"https">>)>>))
         IN IF Truthy(host)
            THEN Str(ToStr(Index0(schemes)) \o <<"://">> \o ToStr(host) \o ToStr(basePath))
            ELSE Null
    ELSE LET servers == Get(doc, "servers")
             url == Get(Index0(servers), "url")
         IN IF Truthy(servers) /\ LengthPositive(servers)
            THEN IF url.t = "string" THEN Str(StripTrailingSlashes(url.s)) ELSE url
            ELSE Null

extractBaseUrl(doc, isSwagger2) ==
    IF isSwagger2
    THEN LET host == Get(doc, "host")
             basePath == OrElse(Get(doc, "basePath"), EmptyStr)
             schemes == OrElse(Get(doc, "schemes"), Arr(<<Str(<<"https">>)>>))
         IN IF Truthy(host)
            THEN Str(ToStr(Index0(schemes)) \o <<"://">> \o ToStr(host) \o ToStr(basePath))
            ELSE Null
    ELSE LET servers == Get(doc, "servers")
         IN IF Truthy(servers) /\ LengthPositive(servers)
            THEN Get(Index0(servers), "url")
            ELSE Null

-----------------------------------------------------------------------------
(* The structured normalizer: auth *)

secDefsOf(doc, isSwagger2) ==
    IF isSwagger2
    THEN Get(doc, "securityDefinitions")
    ELSE GetOpt(Get(doc, "components"), "securitySchemes")

noSecDefs(doc, isSwagger2) ==
    LET secDefs == secDefsOf(doc, isSwagger2)
    IN ~Truthy(secDefs) \/ Len(Keys(secDefs)) = 0

\* first.type reads a property of the first scheme; toLowerCase is a method of strings
extractAuthThrows(doc, isSwagger2) ==
    /\ ~noSecDefs(doc, isSwagger2)
    /\ LET first == Values(secDefsOf(doc, isSwagger2))[1]
       IN \/ IsNullish(first)
          \/ Truthy(Get(first, "type")) /\ Get(first, "type").t # "string"

AuthScheme(ty, headerName, queryParamName, scheme, description, flows) ==
    [type |-> ty, headerName |-> headerName, queryParamName |-> queryParamName,
     scheme |-> scheme, description |-> description, flows |-> flows]

\* a variant that pushes no warning and does not tell the declared schemes apart
extractAuthSilent(doc, isSwagger2) ==
    IF noSecDefs(doc, isSwagger2)
    THEN [auth |-> AuthScheme("none", Undef, Undef, Undef,
                              Str(<<"No authentication detected.">>), Undef),
          warnings |-> <<>>]
    ELSE [auth |-> AuthScheme("unknown", Undef, Undef, Undef,
                              Str(<<"Detected scheme type: ">>), Undef),
          warnings |-> <<>>]

\* [auth, warnings]: the warnings are the ones extractAuth pushes
extractAuth(doc, isSwagger2) ==
    IF noSecDefs(doc, isSwagger2)
    THEN [auth |-> AuthScheme("none", Undef, Undef, Undef,
                              Str(<<"No authentication detected.">>), Undef),
          warnings |-> <<WarnNoSecurity>>]
    ELSE LET first == Values(secDefsOf(doc, isSwagger2))[1]
             schemeType == ToLowerCase(OrElse(Get(first, "type"), EmptyStr).s)
             in == Get(first, "in")
             name == Get(first, "name")
             desc == Get(first, "description")
             auth ==
                CASE schemeType = <<"apikey">> ->
                        AuthScheme("apiKey",
                            IF in = Str(<<"header">>) THEN name ELSE Undef,
                            IF in = Str(<<"query">>) THEN name ELSE Undef,
                            Undef,
                            OrElse(desc, Str(<<"API Key in ">> \o ToStr(in) \o <<": ">> \o ToStr(name))),
                            Undef)
                  [] schemeType = <<"http">> ->
                        IF ToLowerCase(OrElse(Get(first, "scheme"), EmptyStr).s) = <<"bearer">>
                        THEN AuthScheme("bearer", Undef, Undef, Str(<<"bearer">>),
                                 OrElse(desc, Str(<<"Bearer token authentication">>)), Undef)
                        ELSE AuthScheme("basic", Undef, Undef, Str(<<"basic">>),
                                 OrElse(desc, Str(<<"Basic authentication">>)), Undef)
                  [] schemeType = <<"oauth2">> ->
                        AuthScheme("oauth2", Undef, Undef, Undef,
                            OrElse(desc, Str(<<"OAuth 2.0 authentication">>)), Get(first, "flows"))
                  [] OTHER ->
                        AuthScheme("unknown", Undef, Undef, Undef,
                            Str(<<"Detected scheme type: ">> \o schemeType), Undef)
         IN [auth |-> auth, warnings |-> <<>>]

-----------------------------------------------------------------------------
(* The structured normalizer: schema flattening *)

IsArr(v) == v.t = "array"

\* required.includes(name)
Includes(list, v) ==
    /\ list.t = "array"
    /\ \E i \in DOMAIN list.xs : list.xs[i] = v

expandsProperties(schema) ==
    Get(schema, "type") = Str(<<"object">>) \/ Truthy(Get(schema, "properties"))

RECURSIVE flattenSchemaThrows(_)
\* prop.type reads a property of each declared property; required.includes is a
\* method of arrays and strings
flattenSchemaThrows(schema) ==
    IF ~Truthy(schema) THEN FALSE
    ELSE IF expandsProperties(schema)
    THEN LET props == Values(OrElse(Get(schema, "properties"), Obj(<<>>)))
             required == OrElse(Get(schema, "required"), Arr(<<>>))
         IN \E i \in DOMAIN props :
               \/ required.t \notin {"array", "string"}
               \/ IsNullish(props[i])
               \/ /\ expandsProperties(props[i])
                  /\ flattenSchemaThrows(props[i])
    ELSE IF Get(schema, "type") = Str(<<"array">>)
    THEN flattenSchemaThrows(Get(schema, "items"))
    ELSE FALSE

RECURSIVE flattenSchema(_)
\* a variant that reads required from each property instead of the schema's list
flattenSchemaPerFieldRequired(schema) ==
    IF ~Truthy(schema) THEN <<>>
    ELSE IF expandsProperties(schema)
    THEN LET properties == Entries(OrElse(Get(schema, "properties"), Obj(<<>>)))
         IN [i \in DOMAIN properties |->
               LET name == properties[i].k
                   prop == properties[i].v
               IN [name |-> Str(name),
                   type |-> OrElse(Get(prop, "type"), Str(<<"string">>)),
                   required |-> Truthy(Get(prop, "required")),
                   description |-> OrElse(Get(prop, "description"), EmptyStr),
                   default |-> Get(prop, "default"),
                   enum |-> Get(prop, "enum"),
                   example |-> Get(prop, "example"),
                   nested |-> IF expandsProperties(prop)
                              THEN Arr(flattenSchema(prop))
                              ELSE Undef]]
    ELSE IF Get(schema, "type") = Str(<<"array">>)
    THEN <<[name |-> Str(<<"items">>),
            type |-> Str(<<"array">>),
            required |-> FALSE,
            description |-> OrElse(Get(schema, "description"), Str(<<"Array items">>)),
            default |-> Undef, enum |-> Undef, example |-> Undef,
            nested |-> Arr(flattenSchema(Get(schema, "items")))]>>
    ELSE <<[name |-> Str(<<"value">>),
            type |-> OrElse(Get(schema, "type"), Str(<<"string">>)),
            required |-> FALSE,
            description |-> OrElse(Get(schema, "description"), EmptyStr),
            default |-> Undef, enum |-> Undef, example |-> Undef,
            nested |-> Undef]>>

RECURSIVE flattenSchemaDescendingTwice(_)
\* a variant that descends two levels for one level of items
flattenSchemaDescendingTwice(schema) ==
    IF ~Truthy(schema) THEN <<>>
    ELSE IF expandsProperties(schema)
    THEN LET properties == Entries(OrElse(Get(schema, "properties"), Obj(<<>>)))
             required == OrElse(Get(schema, "required"), Arr(<<>>))
         IN [i \in DOMAIN properties |->
               LET name == properties[i].k
                   prop == properties[i].v
               IN [name |-> Str(name),
                   type |-> OrElse(Get(prop, "type"), Str(<<"string">>)),
                   required |-> Includes(required, Str(name)),
                   description |-> OrElse(Get(prop, "description"), EmptyStr),
                   default |-> Get(prop, "default"),
                   enum |-> Get(prop, "enum"),
                   example |-> Get(prop, "example"),
                   nested |-> IF expandsProperties(prop)
                              THEN Arr(flattenSchemaDescendingTwice(prop))
                              ELSE Undef]]
    ELSE IF Get(schema, "type") = Str(<<"array">>)
    THEN <<[name |-> Str(<<"items">>),
            type |-> Str(<<"array">>),
            required |-> FALSE,
            description |-> OrElse(Get(schema, "description"), Str(<<"Array items">>)),
            default |-> Undef, enum |-> Undef, example |-> Undef,
            nested |-> Arr(<<[name |-> Str(<<"items">>),
                              type |-> Str(<<"array">>),
                              required |-> FALSE,
                              description |-> Str(<<"Array items">>),
                              default |-> Undef, enum |-> Undef, example |-> Undef,
                              nested |-> Arr(flattenSchemaDescendingTwice(
                                                 Get(schema, "items")))]>>)]>>
    ELSE <<[name |-> Str(<<"value">>),
            type |-> OrElse(Get(schema, "type"), Str(<<"string">>)),
            required |-> FALSE,
            description |-> OrElse(Get(schema, "description"), EmptyStr),
            default |-> Undef, enum |-> Undef, example |-> Undef,
            nested |-> Undef]>>

flattenSchema(schema) ==
    IF ~Truthy(schema) THEN <<>>
    ELSE IF expandsProperties(schema)
    THEN LET properties == Entries(OrElse(Get(schema, "properties"), Obj(<<>>)))
             required == OrElse(Get(schema, "required"), Arr(<<>>))
         IN [i \in DOMAIN properties |->
               LET name == properties[i].k
                   prop == properties[i].v
               IN [name |-> Str(name),
                   type |-> OrElse(Get(prop, "type"), Str(<<"string">>)),
                   required |-> Includes(required, Str(name)),
                   description |-> OrElse(Get(prop, "description"), EmptyStr),
                   default |-> Get(prop, "default"),
                   enum |-> Get(prop, "enum"),
                   example |-> Get(prop, "example"),
                   nested |-> IF expandsProperties(prop)
                              THEN Arr(flattenSchema(prop))
                              ELSE Undef]]
    ELSE IF Get(schema, "type") = Str(<<"array">>)
    THEN <<[name |-> Str(<<"items">>),
            type |-> Str(<<"array">>),
            required |-> FALSE,
            description |-> OrElse(Get(schema, "description"), Str(<<"Array items">>)),
            default |-> Undef, enum |-> Undef, example |-> Undef,
            nested |-> Arr(flattenSchema(Get(schema, "items")))]>>
    ELSE <<[name |-> Str(<<"value">>),
            type |-> OrElse(Get(schema, "type"), Str(<<"string">>)),
            required |-> FALSE,
            description |-> OrElse(Get(schema, "description"), EmptyStr),
            default |-> Undef, enum |-> Undef, example |-> Undef,
            nested |-> Undef]>>

-----------------------------------------------------------------------------
(* The structured normalizer: parameters, request body, responses *)

\* the elements a spread or a for-of takes from v
Elements(v) == IF v.t = "array" THEN v.xs ELSE <<>>

\* a spread or a for-of over v fails: v is neither an array nor a string
NotIterable(v) == v.t \notin {"array", "string"}

\* a variant that puts the operation's declarations first
rawParametersOperationFirst(op, pathItem) ==
    Elements(OrElse(Get(op, "parameters"), Arr(<<>>)))
        \o Elements(OrElse(Get(pathItem, "parameters"), Arr(<<>>)))

rawParameters(op, pathItem) ==
    Elements(OrElse(Get(pathItem, "parameters"), Arr(<<>>)))
        \o Elements(OrElse(Get(op, "parameters"), Arr(<<>>)))

\* the spreads need iterables; p.name reads a property of each entry
extractParametersThrows(op, pathItem) ==
    \/ NotIterable(OrElse(Get(pathItem, "parameters"), Arr(<<>>)))
    \/ NotIterable(OrElse(Get(op, "parameters"), Arr(<<>>)))
    \/ \E i \in DOMAIN rawParameters(op, pathItem) : IsNullish(rawParameters(op, pathItem)[i])

resolveParamType(p) ==
    IF Truthy(Get(p, "type")) THEN Get(p, "type")
    ELSE IF Truthy(Get(p, "schema"))
    THEN OrElse(Get(Get(p, "schema"), "type"), Str(<<"string">>))
    ELSE Str(<<"string">>)

\* v !== undefined ? String(v) : undefined
StringOrUndef(v) == IF v = Undef THEN Undef ELSE Str(ToStr(v))

extractParameters(op, pathItem) ==
    LET raw == rawParameters(op, pathItem)
    IN [i \in DOMAIN raw |->
          LET p == raw[i]
          IN [name |-> Get(p, "name"),
              in |-> Get(p, "in"),
              required |-> Truthy(Get(p, "required")),
              description |-> OrElse(Get(p, "description"), EmptyStr),
              type |-> resolveParamType(p),
              default |-> StringOrUndef(Get(p, "default")),
              enum |-> Get(p, "enum"),
              example |-> StringOrUndef(Get(p, "example"))]]

\* content['application/json'] || content[Object.keys(content)[0]]
jsonContentOf(content) ==
    OrElse(Get(content, "application/json"),
           IF Len(Keys(content)) > 0 THEN GetK(content, Keys(content)[1])
           ELSE Get(content, "undefined"))

bodyParamsOf(op) ==
    SelectSeq(Elements(OrElse(Get(op, "parameters"), Arr(<<>>))),
              LAMBDA p : Get(p, "in") = Str(<<"body">>))

extractRequestBodyThrows(op, isSwagger2) ==
    IF isSwagger2
    THEN /\ bodyParamsOf(op) # <<>>
         /\ flattenSchemaThrows(Get(bodyParamsOf(op)[1], "schema"))
    ELSE LET rb == Get(op, "requestBody")
             content == GetOpt(rb, "content")
         IN /\ Truthy(rb) /\ Truthy(content) /\ Truthy(jsonContentOf(content))
            /\ flattenSchemaThrows(Get(jsonContentOf(content), "schema"))

NoBody == [t |-> "undefined"]

\* the RequestBody, or undefined (reqBody || undefined)
extractRequestBody(op, isSwagger2) ==
    IF isSwagger2
    THEN LET bodyParams == bodyParamsOf(op)
         IN IF bodyParams = <<>> THEN NoBody
            ELSE LET schema == Get(bodyParams[1], "schema")
                 IN [t |-> "body",
                     required |-> Truthy(Get(bodyParams[1], "required")),
                     contentType |-> Str(<<"application/json">>),
                     schema |-> flattenSchema(schema),
                     example |-> OrElse(GetOpt(schema, "example"), Undef)]
    ELSE LET rb == Get(op, "requestBody")
             content == GetOpt(rb, "content")
         IN IF ~Truthy(rb) \/ ~Truthy(content) \/ ~Truthy(jsonContentOf(content))
            THEN NoBody
            ELSE LET jsonContent == jsonContentOf(content)
                     schema == Get(jsonContent, "schema")
                 IN [t |-> "body",
                     required |-> Truthy(Get(rb, "required")),
                     contentType |-> IF Len(Keys(content)) > 0
                                     THEN Str(Keys(content)[1]) ELSE Undef,
                     schema |-> flattenSchema(schema),
                     example |-> OrElse(Get(jsonContent, "example"), GetOpt(schema, "example"))]

responsesOf(op) == Entries(OrElse(Get(op, "responses"), Obj(<<>>)))

\* resp.content reads a property of each declared response
extractResponsesThrows(op) ==
    \E i \in DOMAIN responsesOf(op) :
        LET resp == responsesOf(op)[i].v
        IN \/ IsNullish(resp)
           \/ LET content == Get(resp, "content")
              IN IF Truthy(content)
                 THEN /\ Truthy(jsonContentOf(content))
                      /\ flattenSchemaThrows(Get(jsonContentOf(content), "schema"))
                 ELSE flattenSchemaThrows(Get(resp, "schema"))

extractResponses(op) ==
    [i \in DOMAIN responsesOf(op) |->
        LET resp == responsesOf(op)[i].v
            content == Get(resp, "content")
            jsonContent == jsonContentOf(content)
        IN [statusCode |-> responsesOf(op)[i].k,
            description |-> OrElse(Get(resp, "description"), EmptyStr),
            schema |-> IF Truthy(content)
                       THEN IF Truthy(jsonContent)
                            THEN Arr(flattenSchema(Get(jsonContent, "schema")))
                            ELSE Arr(<<>>)
                       ELSE IF Truthy(Get(resp, "schema"))
                            THEN Arr(flattenSchema(Get(resp, "schema")))
                            ELSE Arr(<<>>),
            example |-> IF Truthy(content) /\ Truthy(jsonContent)
                        THEN OrElse(Get(jsonContent, "example"),
                                    GetOpt(Get(jsonContent, "schema"), "example"))
                        ELSE Undef]]

-----------------------------------------------------------------------------
(* The structured normalizer: endpoints *)

methods == <<"GET", "POST", "PUT", "PATCH", "DELETE">>

pathsOf(doc) == Entries(OrElse(Get(doc, "paths"), Obj(<<>>)))

\* pathItem[method.toLowerCase()] reads a property of each path item
extractEndpointsThrows(doc, isSwagger2) ==
    \E i \in DOMAIN pathsOf(doc) :
        LET pathItem == pathsOf(doc)[i].v
        IN \/ IsNullish(pathItem)
           \/ \E m \in DOMAIN methods :
                 LET op == Get(pathItem, LowerTok(methods[m]))
                 IN /\ Truthy(op)
                    /\ \/ extractParametersThrows(op, pathItem)
                       \/ extractRequestBodyThrows(op, isSwagger2)
                       \/ extractResponsesThrows(op)

endpointOf(doc, isSwagger2, path, pathItem, method) ==
    LET op == Get(pathItem, LowerTok(method))
        tags == OrElse(Get(op, "tags"), Arr(<<Str(<<"default">>)>>))
    IN [id |-> OrElse(Get(op, "operationId"),
                      Str(<<method, "_">> \o ReplaceChars(path, {"{", "}", "/"}))),
        method |-> method,
        path |-> Str(path),
        summary |-> OrElse(Get(op, "summary"), EmptyStr),
        description |-> OrElse(Get(op, "description"), OrElse(Get(op, "summary"), EmptyStr)),
        tag |-> OrElse(Index0(tags), Str(<<"default">>)),
        operationId |-> Get(op, "operationId"),
        parameters |-> extractParameters(op, pathItem),
        requestBody |-> extractRequestBody(op, isSwagger2),
        responses |-> extractResponses(op),
        auth |-> HasLength(Get(op, "security")) \/ HasLength(Get(doc, "security")),
        deprecated |-> Bool(Truthy(Get(op, "deprecated")))]

\* a variant that goes through the methods first and the paths under each
extractEndpointsByMethod(doc, isSwagger2) ==
    Flatten([m \in DOMAIN methods |->
        Flatten([i \in DOMAIN pathsOf(doc) |->
              IF Truthy(Get(pathsOf(doc)[i].v, LowerTok(methods[m])))
              THEN <<endpointOf(doc, isSwagger2, pathsOf(doc)[i].k, pathsOf(doc)[i].v, methods[m])>>
              ELSE <<>>])])

extractEndpoints(doc, isSwagger2) ==
    Flatten([i \in DOMAIN pathsOf(doc) |->
        LET path == pathsOf(doc)[i].k
            pathItem == pathsOf(doc)[i].v
        IN Flatten([m \in DOMAIN methods |->
              IF Truthy(Get(pathItem, LowerTok(methods[m])))
              THEN <<endpointOf(doc, isSwagger2, path, pathItem, methods[m])>>
              ELSE <<>>])])

-----------------------------------------------------------------------------
(* Tag groups (both normalizers) *)

\* Map.set: an existing key keeps its place
MapSet(groups, g) ==
    IF \E i \in DOMAIN groups : groups[i].name = g.name
    THEN [i \in DOMAIN groups |-> IF groups[i].name = g.name THEN g ELSE groups[i]]
    ELSE Append(groups, g)

MapHas(groups, name) == \E i \in DOMAIN groups : groups[i].name = name

TagGroup(name, description) == [name |-> name, description |-> description, endpointIds |-> <<>>]

RECURSIVE addTagDefs(_, _)
addTagDefs(groups, tagDefs) ==
    IF tagDefs = <<>> THEN groups
    ELSE addTagDefs(MapSet(groups, TagGroup(Get(Head(tagDefs), "name"),
                                            Get(Head(tagDefs), "description"))),
                    Tail(tagDefs))

RECURSIVE groupEndpoints(_, _)
\* the second loop of buildTagGroups; ep.tag is used as the endpoint gives it
groupEndpoints(groups, endpoints) ==
    IF endpoints = <<>> THEN groups
    ELSE LET ep == Head(endpoints)
             known == IF MapHas(groups, ep.tag) THEN groups
                      ELSE Append(groups, TagGroup(ep.tag, Undef))
         IN groupEndpoints(
                [i \in DOMAIN known |->
                    IF known[i].name = ep.tag
                    THEN [known[i] EXCEPT !.endpointIds = Append(@, ep.id)]
                    ELSE known[i]],
                Tail(endpoints))

\* for (const td of tagDefs) needs an iterable; td.name reads a property of td
buildTagGroupsThrows(doc) ==
    LET tagDefs == OrElse(Get(doc, "tags"), Arr(<<>>))
    IN \/ NotIterable(tagDefs)
       \/ \E i \in DOMAIN Elements(tagDefs) : IsNullish(Elements(tagDefs)[i])

buildTagGroups(doc, endpoints) ==
    groupEndpoints(addTagDefs(<<>>, Elements(OrElse(Get(doc, "tags"), Arr(<<>>)))), endpoints)

-----------------------------------------------------------------------------
(* The structured normalizer: pagination and rate limits *)

PAGINATION_KEYWORDS ==
    << <<"page">>, <<"limit">>, <<"offset">>, <<"cursor">>, <<"after">>, <<"before">>,
       <<"per", "_", "page">>, <<"pageSize">>, <<"page", "_", "size">> >>

allParameters(endpoints) == Flatten([i \in DOMAIN endpoints |-> endpoints[i].parameters])

\* p.name.toLowerCase() needs a string
detectPaginationThrows(endpoints) ==
    \E i \in DOMAIN allParameters(endpoints) : allParameters(endpoints)[i].name.t # "string"

paginationType(lowerName) ==
    IF lowerName \in {<<"cursor">>, <<"after">>, <<"before">>} THEN "cursor"
    ELSE IF lowerName = <<"offset">> THEN "offset"
    ELSE "page"

RECURSIVE paginationScan(_, _, _)
paginationScan(params, seen, hints) ==
    IF params = <<>> THEN hints
    ELSE LET p == Head(params)
             lowerName == ToLowerCase(p.name.s)
         IN IF lowerName \in SeqToSet(PAGINATION_KEYWORDS) /\ lowerName \notin seen
            THEN paginationScan(Tail(params), seen \cup {lowerName},
                    Append(hints,
                        [type |-> paginationType(lowerName),
                         parameters |-> <<p.name>>,
                         description |-> OrElse(p.description,
                             Str(<<"Pagination parameter: ">> \o p.name.s))]))
            ELSE paginationScan(Tail(params), seen, hints)

detectPagination(endpoints) == paginationScan(allParameters(endpoints), {}, <<>>)

RateLimitHint(description) ==
    [statusCode |-> 429, retryHeader |-> Str(<<"Retry-After">>), description |-> description]

allResponses(endpoints) == Flatten([i \in DOMAIN endpoints |-> endpoints[i].responses])

\* a variant that goes on after the first 429 response
detectRateLimitsEvery(endpoints) ==
    LET hits == SelectSeq(allResponses(endpoints), LAMBDA r : r.statusCode = <<"429">>)
    IN [i \in DOMAIN hits |->
          RateLimitHint(OrElse(hits[i].description,
                               Str(<<"Rate limit exceeded - wait and retry.">>)))]

detectRateLimits(endpoints) ==
    LET rs == allResponses(endpoints)
    IN IF \E i \in DOMAIN rs : rs[i].statusCode = <<"429">>
       THEN LET first == CHOOSE i \in DOMAIN rs :
                            /\ rs[i].statusCode = <<"429">>
                            /\ \A j \in DOMAIN rs : rs[j].statusCode = <<"429">> => i <= j
            IN <<RateLimitHint(OrElse(rs[first].description,
                                      Str(<<"Rate limit exceeded - wait and retry.">>)))>>
       ELSE <<>>

-----------------------------------------------------------------------------
(* The structured normalizer *)

NotDecoded == [ok |-> FALSE]
Decoded(v) == [ok |-> TRUE, v |-> v]

\* a variant without the YAML fallback
decodeDocumentJsonOnly(input) == input.json

\* JSON.parse(input), and yaml.load(input) when it throws
decodeDocument(input) == IF input.json.ok THEN input.json ELSE input.yaml

ApiSpec(title, description, version, baseUrl, auth, endpoints, tags, paginationHints, rateLimitHints, sourceType) ==
    [title |-> title, description |-> description, version |-> version,
     baseUrl |-> baseUrl, auth |-> auth, endpoints |-> endpoints, tags |-> tags,
     paginationHints |-> paginationHints, rateLimitHints |-> rateLimitHints,
     sourceType |-> sourceType]

\* the todos parseOpenApiSpec pushes for a base URL
baseUrlTodos(baseUrl) == IF ~Truthy(baseUrl) THEN <<TodoBaseUrlOpenApi>> ELSE <<>>

parseOpenApiSpec(input) ==
    IF ~decodeDocument(input).ok THEN Thrown(ParseErrorMessage)
    ELSE LET doc == decodeDocument(input).v
         IN IF IsNullish(doc) THEN Thrown(TypeErrorMessage)
            ELSE LET isSwagger2 == Truthy(Get(doc, "swagger"))
                     info == OrElse(Get(doc, "info"), Obj(<<>>))
                 IN IF \/ extractBaseUrlThrows(doc, isSwagger2)
                       \/ extractAuthThrows(doc, isSwagger2)
                       \/ extractEndpointsThrows(doc, isSwagger2)
                       \/ buildTagGroupsThrows(doc)
                       \/ detectPaginationThrows(extractEndpoints(doc, isSwagger2))
                    THEN Thrown(TypeErrorMessage)
                    ELSE LET baseUrl == extractBaseUrl(doc, isSwagger2)
                             authRes == extractAuth(doc, isSwagger2)
                             endpoints == extractEndpoints(doc, isSwagger2)
                         IN Returned(
                              ApiSpec(OrElse(Get(info, "title"), Str(<<"Untitled API">>)),
                                      OrElse(Get(info, "description"), EmptyStr),
                                      OrElse(Get(info, "version"), Str(<<"1.0.0">>)),
                                      OrElse(baseUrl, Str(Placeholder)),
                                      authRes.auth,
                                      endpoints,
                                      buildTagGroups(doc, endpoints),
                                      detectPagination(endpoints),
                                      detectRateLimits(endpoints),
                                      "openapi"),
                              authRes.warnings,
                              baseUrlTodos(baseUrl))

-----------------------------------------------------------------------------
(* Free text.  A text is a sequence of lines (segments), each of one kind:  *)
(*   blank    a whitespace-only line                                        *)
(*   prose    words that no pattern of the parser reacts to                 *)
(*   heading  "# title" (level 1) or "## title"                             *)
(*   endpoint METHOD /path, bare, in a backtick code span or with the       *)
(*            method in bold                                                *)
(*   curl     curl [-X METHOD] URL                                          *)
(*   baseUrl  "Base URL: URL"                                               *)
(*   url      a URL in a sentence                                           *)
(*   cue      a word or phrase the lexical checks look for                  *)
(* Texts stay shorter than 200 characters, so substring(0, 200) and the     *)
(* 500-character context radius keep the whole text.                        *)

Blank == [k |-> "blank"]
Prose == [k |-> "prose"]
Heading(level, title) == [k |-> "heading", level |-> level, title |-> title]
EndpointLine(form, method, path) == [k |-> "endpoint", form |-> form, method |-> method, path |-> path]
CurlLine(method, url) == [k |-> "curl", method |-> method, url |-> url]
BaseUrlLine(url) == [k |-> "baseUrl", url |-> url]
UrlLine(url) == [k |-> "url", url |-> url]
Cue(lit) == [k |-> "cue", lit |-> lit]

Url(scheme, host, path) == [scheme |-> scheme, host |-> host, path |-> path]

UrlText(u) == <<u.scheme, "://">> \o u.host \o u.path

Render(seg) ==
    CASE seg.k = "blank" -> <<" ">>
      [] seg.k = "prose" -> <<"Some prose.">>
      [] seg.k = "heading" -> <<IF seg.level = 1 THEN "#" ELSE "##", " ">> \o seg.title
      [] seg.k = "endpoint" ->
            (CASE seg.form = "bare" -> <<seg.method, " ">> \o seg.path
               [] seg.form = "backtick" -> <<"[backtick]", seg.method, " ">> \o seg.path \o <<"[backtick]">>
               [] OTHER -> <<"**", seg.method, "**", " ">> \o seg.path)
      [] seg.k = "curl" ->
            <<"curl", " ">>
                \o (IF seg.method = "" THEN <<>> ELSE <<"-X", " ", seg.method, " ">>)
                \o UrlText(seg.url)
      [] seg.k = "baseUrl" -> <<"Base URL", ":", " ">> \o UrlText(seg.url)
      [] seg.k = "url" -> <<"See", " ">> \o UrlText(seg.url)
      [] OTHER -> <<seg.lit>>

RECURSIVE Join(_, _)
\* lines.join(sep)
Join(ss, sep) ==
    IF ss = <<>> THEN <<>>
    ELSE IF Len(ss) = 1 THEN Head(ss)
    ELSE Head(ss) \o <<sep>> \o Join(Tail(ss), sep)

RenderText(text) == Join([i \in DOMAIN text |-> Render(text[i])], "\n")

\* the index of the first element of s that satisfies Test, 0 when there is none
FirstIndex(s, Test(_)) ==
    IF \E i \in DOMAIN s : Test(s[i])
    THEN CHOOSE i \in DOMAIN s : Test(s[i]) /\ \A j \in DOMAIN s : Test(s[j]) => i <= j
    ELSE 0

-----------------------------------------------------------------------------
(* The text normalizer: title, description, base URL *)

nonBlankLines(text) == SelectSeq(text, LAMBDA seg : seg.k # "blank")

extractTitle(text) ==
    LET h1 == FirstIndex(text, LAMBDA seg : seg.k = "heading" /\ seg.level = 1)
        lines == nonBlankLines(text)
    IN IF h1 # 0 THEN Str(text[h1].title)
       ELSE IF lines # <<>> THEN Str(Render(lines[1]))
       ELSE Null

extractDescription(text) ==
    LET lines == nonBlankLines(text)
    IN Str(Join([i \in 1..(IF Len(lines) < 3 THEN Len(lines) ELSE 3) |-> Render(lines[i])], " "))

\* [a-zA-Z0-9] at the start of a host
AlnumStart(host) == host # <<>> /\ Head(host) \notin {"<", ">", "{", "}", "[", "]", "/", ":", "."}

\* the label pattern: after the label, https?:// and one or more characters that are
\* neither whitespace, quotes nor angle brackets
RECURSIVE UpToAngle(_)
UpToAngle(s) ==
    IF s = <<>> \/ Head(s) \in {"<", ">"} THEN <<>> ELSE <<Head(s)>> \o UpToAngle(Tail(s))

labelCapture(u) == <<u.scheme, "://">> \o UpToAngle(u.host \o u.path)

labelMatches(seg) == seg.k = "baseUrl" /\ UpToAngle(seg.url.host \o seg.url.path) # <<>>

IsVersionTok(tok) == tok \in {"v1", "v2"}

\* the fallback pattern: https?://[a-zA-Z0-9][-a-zA-Z0-9.]*(?:/api)?(?:/v\d+)?
anyUrlCapture(u) ==
    LET p == u.path
        api == Len(p) >= 2 /\ p[1] = "/" /\ p[2] = "api"
        rest == IF api THEN SubSeq(p, 3, Len(p)) ELSE p
        ver == Len(rest) >= 2 /\ rest[1] = "/" /\ IsVersionTok(rest[2])
    IN <<u.scheme, "://", Head(u.host)>>
          \o (IF api THEN <<"/", "api">> ELSE <<>>)
          \o (IF ver THEN <<"/", rest[2]>> ELSE <<>>)

anyUrlMatches(seg) == seg.k \in {"baseUrl", "url", "curl"} /\ AlnumStart(seg.url.host)

extractBaseUrlText(text) ==
    LET m == FirstIndex(text, labelMatches)
        a == FirstIndex(text, anyUrlMatches)
    IN IF m # 0 THEN Str(StripTrailingSlashes(labelCapture(text[m].url)))
       ELSE IF a # 0 THEN Str(StripTrailingSlashes(anyUrlCapture(text[a].url)))
       ELSE Null

-----------------------------------------------------------------------------
(* The text normalizer: auth *)

\* /bearer\s*token/i or /authorization:\s*bearer/i
cueBearer(seg) == seg.k = "cue" /\ seg.lit \in {"Bearer token", "Authorization: Bearer"}
\* /api[_-]?key/i or /x-api-key/i
cueApiKey(seg) == seg.k = "cue" /\ seg.lit \in {"X-API-Key", "api_key", "api-key"}
\* lower.includes('basic auth')
cueBasic(seg) == seg.k = "cue" /\ seg.lit = "Basic Auth"
\* lower.includes('oauth')
cueOAuth(seg) == seg.k = "cue" /\ seg.lit = "OAuth"

\* text.match(/(x-api-key|api[_-]?key)/i)?.[1]: the leftmost match, as written
headerMatch(text) ==
    LET i == FirstIndex(text, cueApiKey)
    IN IF i # 0 THEN Str(<<text[i].lit>>) ELSE Undef

\* a variant that returns the scheme whose cue stands first in the text
extractAuthTextByPosition(text) ==
    LET isCue(seg) == cueBearer(seg) \/ cueApiKey(seg) \/ cueBasic(seg) \/ cueOAuth(seg)
        i == FirstIndex(text, isCue)
    IN IF i = 0
       THEN [auth |-> AuthScheme("unknown", Undef, Undef, Undef,
                          Str(<<"Authentication method not detected - please specify.">>), Undef),
             warnings |-> <<WarnNoAuthText>>]
       ELSE IF cueBearer(text[i])
       THEN [auth |-> AuthScheme("bearer", Undef, Undef, Str(<<"bearer">>),
                          Str(<<"Bearer token authentication (detected from docs)">>), Undef),
             warnings |-> <<>>]
       ELSE IF cueApiKey(text[i])
       THEN [auth |-> AuthScheme("apiKey", OrElse(headerMatch(text), Str(<<"X-API-Key">>)),
                          Undef, Undef,
                          Str(<<"API Key authentication (detected from docs)">>), Undef),
             warnings |-> <<>>]
       ELSE IF cueBasic(text[i])
       THEN [auth |-> AuthScheme("basic", Undef, Undef, Str(<<"basic">>),
                          Str(<<"Basic authentication (detected from docs)">>), Undef),
             warnings |-> <<>>]
       ELSE [auth |-> AuthScheme("oauth2", Undef, Undef, Undef,
                          Str(<<"OAuth 2.0 (detected from docs)">>), Undef),
             warnings |-> <<>>]

\* [auth, warnings]
extractAuthText(text) ==
    IF FirstIndex(text, cueBearer) # 0
    THEN [auth |-> AuthScheme("bearer", Undef, Undef, Str(<<"bearer">>),
                       Str(<<"Bearer token authentication (detected from docs)">>), Undef),
          warnings |-> <<>>]
    ELSE IF FirstIndex(text, cueApiKey) # 0
    THEN [auth |-> AuthScheme("apiKey", OrElse(headerMatch(text), Str(<<"X-API-Key">>)),
                       Undef, Undef,
                       Str(<<"API Key authentication (detected from docs)">>), Undef),
          warnings |-> <<>>]
    ELSE IF FirstIndex(text, cueBasic) # 0
    THEN [auth |-> AuthScheme("basic", Undef, Undef, Str(<<"basic">>),
                       Str(<<"Basic authentication (detected from docs)">>), Undef),
          warnings |-> <<>>]
    ELSE IF FirstIndex(text, cueOAuth) # 0
    THEN [auth |-> AuthScheme("oauth2", Undef, Undef, Undef,
                       Str(<<"OAuth 2.0 (detected from docs)">>), Undef),
          warnings |-> <<>>]
    ELSE [auth |-> AuthScheme("unknown", Undef, Undef, Undef,
                       Str(<<"Authentication method not detected - please specify.">>), Undef),
          warnings |-> <<WarnNoAuthText>>]

-----------------------------------------------------------------------------
(* The text normalizer: endpoints *)

HTTP_METHODS == <<"GET", "POST", "PUT", "PATCH", "DELETE">>

\* path.match(/\{([^}]+)\}/g), each match with its braces removed
RECURSIVE pathParamNames(_)
pathParamNames(s) ==
    IF s = <<>> THEN <<>>
    ELSE IF Head(s) = "{" /\ Len(s) >= 2 /\ s[2] # "}" /\ \E j \in 3..Len(s) : s[j] = "}"
    THEN LET close == CHOOSE j \in 3..Len(s) :
                          s[j] = "}" /\ \A i \in 3..Len(s) : s[i] = "}" => j <= i
         IN <<SelectSeq(SubSeq(s, 2, close - 1), LAMBDA tok : tok # "{")>>
               \o pathParamNames(SubSeq(s, close + 1, Len(s)))
    ELSE pathParamNames(Tail(s))

\* a variant that files the names under the query
extractParamsFromContextAsQuery(path) ==
    LET names == pathParamNames(path)
    IN [i \in DOMAIN names |->
          [name |-> Str(names[i]),
           in |-> Str(<<"query">>),
           required |-> TRUE,
           description |-> Str(<<"Path parameter: ">> \o names[i]),
           type |-> Str(<<"string">>),
           default |-> Undef, enum |-> Undef, example |-> Undef]]

\* a variant that leaves the parameters optional
extractParamsFromContextOptional(path) ==
    LET names == pathParamNames(path)
    IN [i \in DOMAIN names |->
          [name |-> Str(names[i]),
           in |-> Str(<<"path">>),
           required |-> FALSE,
           description |-> Str(<<"Path parameter: ">> \o names[i]),
           type |-> Str(<<"string">>),
           default |-> Undef, enum |-> Undef, example |-> Undef]]

extractParamsFromContext(path) ==
    LET names == pathParamNames(path)
    IN [i \in DOMAIN names |->
          [name |-> Str(names[i]),
           in |-> Str(<<"path">>),
           required |-> TRUE,
           description |-> Str(<<"Path parameter: ">> \o names[i]),
           type |-> Str(<<"string">>),
           default |-> Undef, enum |-> Undef, example |-> Undef]]

\* path.split('/')
RECURSIVE SplitSlash(_, _)
SplitSlash(s, cur) ==
    IF s = <<>> THEN <<cur>>
    ELSE IF Head(s) = "/" THEN <<cur>> \o SplitSlash(Tail(s), <<>>)
    ELSE SplitSlash(Tail(s), Append(cur, Head(s)))

\* s.charAt(0).toUpperCase() + s.slice(1), on the path words the inputs use
CapTok(tok) ==
    CASE tok = "users" -> "Users"
      [] tok = "orders" -> "Orders"
      [] tok = "api" -> "Api"
      [] tok = "v1" -> "V1"
      [] tok = "v2" -> "V2"
      [] tok = "a" -> "A"
      [] tok = "b" -> "B"
      [] tok = "id" -> "Id"
      [] OTHER -> tok

capitalize(s) == IF s = <<>> THEN s ELSE <<CapTok(Head(s))>> \o Tail(s)

guessTag(path) ==
    LET segments == SelectSeq(SplitSlash(path, <<>>),
                              LAMBDA g : g # <<>> /\ Head(g) \notin {"{", ":"})
    IN IF Len(segments) >= 2 THEN Str(capitalize(segments[2]))
       ELSE IF Len(segments) = 1 THEN Str(capitalize(segments[1]))
       ELSE Str(<<"default">>)

extractSummaryFromContext(text, method, path) ==
    LET h == FirstIndex(text, LAMBDA seg : seg.k = "heading")
    IN IF h # 0 THEN Str(text[h].title) ELSE Str(<<method, " ">> \o path)

\* the lines pattern number n matches: 1 bare (also inside a code span), 2 code span,
\* 3 bold method
patternForms(n) ==
    CASE n = 1 -> {"bare", "backtick"}
      [] n = 2 -> {"backtick"}
      [] OTHER -> {"bold"}

patternMatches(text, n) ==
    LET hits == SelectSeq(text, LAMBDA seg : seg.k = "endpoint" /\ seg.form \in patternForms(n))
    IN [i \in DOMAIN hits |-> [src |-> "pattern", method |-> UpperTok(hits[i].method),
                               path |-> hits[i].path]]

\* new URL(url): [t |-> "throw"] for an invalid URL; pathname percent-encodes braces
newURL(u) ==
    IF ~AlnumStart(u.host) THEN [t |-> "throw"]
    ELSE [t |-> "url",
          pathname |-> IF u.path = <<>> THEN <<"/">>
                       ELSE [i \in DOMAIN u.path |->
                               CASE u.path[i] = "{" -> "%7B"
                                 [] u.path[i] = "}" -> "%7D"
                                 [] OTHER -> u.path[i]]]

\* a variant without the catch block
safeParseUrlUncaught(u) == newURL(u)

safeParseUrl(u) == IF newURL(u).t = "throw" THEN Null ELSE newURL(u)

curlMatches(text) ==
    LET hits == SelectSeq(text, LAMBDA seg : seg.k = "curl")
    IN [i \in DOMAIN hits |->
          [src |-> "curl",
           method |-> UpperTok(IF hits[i].method = "" THEN "GET" ELSE hits[i].method),
           urlObj |-> safeParseUrl(hits[i].url)]]

\* an exception of new URL that safeParseUrl lets through ends extractEndpoints
extractEndpointsTextThrows(text) ==
    \E i \in DOMAIN curlMatches(text) : curlMatches(text)[i].urlObj.t = "throw"

endpointKey(method, path) == <<method, " ">> \o path

textEndpointId(method, path) ==
    Str(<<LowerTok(method), "_">> \o ReplaceChars(path, {"{", "}", "/", ":", "."}))

textResponses == <<[statusCode |-> <<"200">>, description |-> Str(<<"Successful response">>),
                    schema |-> Undef, example |-> Undef]>>

textEndpoint(text, m) ==
    LET path == IF m.src = "pattern" THEN m.path ELSE m.urlObj.pathname
    IN [id |-> textEndpointId(m.method, path),
        method |-> m.method,
        path |-> Str(path),
        summary |-> IF m.src = "pattern"
                    THEN extractSummaryFromContext(text, m.method, path)
                    ELSE Str(<<m.method, " ">> \o path),
        description |-> IF m.src = "pattern" THEN Str(RenderText(text))
                        ELSE Str(<<"Extracted from curl example">>),
        tag |-> guessTag(path),
        operationId |-> Undef,
        parameters |-> IF m.src = "pattern" THEN extractParamsFromContext(path) ELSE <<>>,
        requestBody |-> NoBody,
        responses |-> textResponses,
        auth |-> TRUE,
        deprecated |-> Undef]

RECURSIVE scanMatches(_, _, _, _)
\* the two loops of extractEndpoints over their matches, sharing seen and endpoints
scanMatches(text, matches, seen, endpoints) ==
    IF matches = <<>> THEN endpoints
    ELSE LET m == Head(matches)
         IN IF m.src = "curl" /\ m.urlObj.t # "url"
            THEN scanMatches(text, Tail(matches), seen, endpoints)
            ELSE LET path == IF m.src = "pattern" THEN m.path ELSE m.urlObj.pathname
                     key == endpointKey(m.method, path)
                 IN IF key \in seen \/ (m.src = "pattern" /\ m.method \notin SeqToSet(HTTP_METHODS))
                    THEN scanMatches(text, Tail(matches), seen, endpoints)
                    ELSE scanMatches(text, Tail(matches), seen \cup {key},
                                     Append(endpoints, textEndpoint(text, m)))

\* a variant that keeps no set of seen keys
extractEndpointsTextKeepingAll(text) ==
    LET ms == SelectSeq(patternMatches(text, 1) \o patternMatches(text, 2)
                            \o patternMatches(text, 3) \o curlMatches(text),
                        LAMBDA m : m.src = "pattern" \/ m.urlObj.t = "url")
    IN [i \in DOMAIN ms |-> textEndpoint(text, ms[i])]

extractEndpointsText(text) ==
    scanMatches(text,
                patternMatches(text, 1) \o patternMatches(text, 2) \o patternMatches(text, 3)
                    \o curlMatches(text),
                {}, <<>>)

buildTagGroupsText(endpoints) ==
    groupEndpoints(<<>>, [i \in DOMAIN endpoints |->
        [endpoints[i] EXCEPT !.tag = OrElse(@, Str(<<"default">>))]])

-----------------------------------------------------------------------------
(* The text normalizer: pagination, rate limits, the whole call *)

hasCue(text, lits) == \E i \in DOMAIN text : text[i].k = "cue" /\ text[i].lit \in lits

PaginationHint(ty, parameters, description) ==
    [type |-> ty, parameters |-> parameters, description |-> description]

extractPaginationHints(text) ==
    (IF hasCue(text, {"cursor", "after"})
     THEN <<PaginationHint("cursor", <<Str(<<"cursor">>)>>,
                           Str(<<"Cursor-based pagination detected">>))>>
     ELSE <<>>)
    \o (IF hasCue(text, {"offset"}) /\ hasCue(text, {"limit"})
        THEN <<PaginationHint("offset", <<Str(<<"offset">>), Str(<<"limit">>)>>,
                              Str(<<"Offset-based pagination detected">>))>>
        ELSE <<>>)
    \o (IF hasCue(text, {"page"}) /\ hasCue(text, {"per_page"})
        THEN <<PaginationHint("page", <<Str(<<"page">>), Str(<<"per", "_", "page">>)>>,
                              Str(<<"Page-based pagination detected">>))>>
        ELSE <<>>)

extractRateLimitHints(text) ==
    IF hasCue(text, {"429", "rate limit", "too many requests"})
    THEN <<RateLimitHint(Str(<<"Rate limiting detected in docs">>))>>
    ELSE <<>>

\* the todos parseTextDocs pushes for a base URL
baseUrlTodosText(baseUrl) == IF ~Truthy(baseUrl) THEN <<TodoBaseUrlText>> ELSE <<>>

\* a variant that says nothing when it found no endpoint
parseTextDocsQuiet(input) ==
    LET text == input.text
        baseUrl == extractBaseUrlText(text)
        authRes == extractAuthText(text)
        endpoints == extractEndpointsText(text)
    IN Returned(
         ApiSpec(OrElse(extractTitle(text), Str(<<"Untitled API">>)),
                 extractDescription(text),
                 Str(<<"1.0.0">>),
                 OrElse(baseUrl, Str(Placeholder)),
                 authRes.auth,
                 endpoints,
                 buildTagGroupsText(endpoints),
                 extractPaginationHints(text),
                 extractRateLimitHints(text),
                 "text"),
         authRes.warnings,
         baseUrlTodosText(baseUrl))

parseTextDocs(input) ==
    LET text == input.text
    IN IF extractEndpointsTextThrows(text) THEN Thrown(TypeErrorMessage)
       ELSE LET baseUrl == extractBaseUrlText(text)
                authRes == extractAuthText(text)
                endpoints == extractEndpointsText(text)
                none == endpoints = <<>>
            IN Returned(
                 ApiSpec(OrElse(extractTitle(text), Str(<<"Untitled API">>)),
                         extractDescription(text),
                         Str(<<"1.0.0">>),
                         OrElse(baseUrl, Str(Placeholder)),
                         authRes.auth,
                         endpoints,
                         buildTagGroupsText(endpoints),
                         extractPaginationHints(text),
                         extractRateLimitHints(text),
                         "text"),
                 authRes.warnings \o (IF none THEN <<WarnNoEndpoints>> ELSE <<>>),
                 baseUrlTodosText(baseUrl) \o (IF none THEN <<TodoNoEndpoints>> ELSE <<>>))

-----------------------------------------------------------------------------
(* The parse route *)

\* !content || content.trim().length === 0
isBlank(input) == input.first = "blank"

\* trimmed.startsWith('{')
startsWithBrace(input) == input.first = "brace"

\* /^(openapi|swagger)\s*:/m.test(trimmed)
hasVersionKeyLine(input) == input.keyLine

\* a variant that goes on to the line test when JSON.parse throws
isLikelyOpenApiYamlFallback(input) ==
    IF startsWithBrace(input) /\ input.json.ok
    THEN /\ ~IsNullish(input.json.v)
         /\ Truthy(OrElse(Get(input.json.v, "openapi"), Get(input.json.v, "swagger")))
    ELSE hasVersionKeyLine(input)

isLikelyOpenApi(input) ==
    IF startsWithBrace(input)
    THEN /\ input.json.ok
         /\ ~IsNullish(input.json.v)
         /\ Truthy(OrElse(Get(input.json.v, "openapi"), Get(input.json.v, "swagger")))
    ELSE hasVersionKeyLine(input)

routesToOpenApi(input, ty) == ty = "openapi" \/ (ty = "auto" /\ isLikelyOpenApi(input))

normalize(input, ty) ==
    IF routesToOpenApi(input, ty) THEN parseOpenApiSpec(input) ELSE parseTextDocs(input)

NoContentMessage == "No content provided"

POSTResponse(input, ty) ==
    IF isBlank(input) THEN [status |-> 400, error |-> NoContentMessage]
    ELSE LET result == normalize(input, ty)
         IN IF result.ok
            THEN [status |-> 200, spec |-> result.spec,
                  warnings |-> result.warnings, todos |-> result.todos]
            ELSE [status |-> 500, error |-> result.error]

-----------------------------------------------------------------------------
(* The inputs: documents *)

SeqsUpTo(S, n) == UNION {[1..k -> S] : k \in 0..n}

\* the sequences of distinct elements of S of length at most n
DistinctSeqsUpTo(S, n) ==
    {q \in SeqsUpTo(S, n) : \A i, j \in DOMAIN q : q[i] = q[j] => i = j}

Absent == [t |-> "absent"]

\* an object of the entries that are present
MkObj(entries) == Obj(SelectSeq(entries, LAMBDA e : e.v # Absent))

InfoT == Obj(<<E("title", Str(<<"T">>)), E("version", Str(<<"1">>))>>)

Hosts == {Absent, EmptyStr, Str(<<"api.x.io">>)}
BasePaths == {Absent, Str(<<"/", "v1">>)}
SchemeLists ==
    {Absent} \cup {Arr(q) : q \in SeqsUpTo({Str(<<"http">>), Str(<<"https">>)}, MaxSchemes)}

SwaggerBaseDocs ==
    {MkObj(<<E("swagger", Str(<<"2.0">>)), E("info", InfoT),
             E("host", h), E("basePath", b), E("schemes", sc)>>) :
        h \in Hosts, b \in BasePaths, sc \in SchemeLists}

ServerChoices ==
    {Obj(<<E("url", Str(<<"https", "://", "x.io">>))>>),
     Obj(<<E("url", Str(<<"https", "://", "b.io", "/", "v1", "/">>))>>),
     Obj(<<E("url", EmptyStr)>>),
     Obj(<<E("description", Str(<<"staging">>))>>),
     Null}

ServerLists == {Absent} \cup {Arr(q) : q \in SeqsUpTo(ServerChoices, MaxServers)}

OpenApiBaseDocs ==
    {MkObj(<<E("openapi", Str(<<"3.0.0">>)), E("info", InfoT), E("servers", sv)>>) :
        sv \in ServerLists}

SecuritySchemeChoices ==
    {Obj(<<E("type", Str(<<"apiKey">>)), E("in", Str(<<"header">>)), E("name", Str(<<"X-API-Key">>))>>),
     Obj(<<E("type", Str(<<"apiKey">>)), E("in", Str(<<"query">>)), E("name", Str(<<"api", "_", "key">>))>>),
     Obj(<<E("type", Str(<<"http">>)), E("scheme", Str(<<"Bearer">>))>>),
     Obj(<<E("type", Str(<<"http">>)), E("scheme", Str(<<"basic">>))>>),
     Obj(<<E("type", Str(<<"basic">>))>>),
     Obj(<<E("type", Str(<<"oauth2">>)), E("flows", Obj(<<E("implicit", Obj(<<>>))>>))>>),
     Obj(<<E("type", Str(<<"mutualTLS">>))>>),
     Obj(<<E("type", Num(2))>>),
     Null}

SchemeName(i) == IF i = 1 THEN "s1" ELSE IF i = 2 THEN "s2" ELSE "s3"

SecuritySchemeMaps ==
    {Absent} \cup
    {Obj([i \in DOMAIN q |-> E(SchemeName(i), q[i])]) :
        q \in SeqsUpTo(SecuritySchemeChoices, MaxSecuritySchemes)}

ServersX == Arr(<<Obj(<<E("url", Str(<<"https", "://", "x.io">>))>>)>>)

AuthDocs ==
    {MkObj(<<E("swagger", Str(<<"2.0">>)), E("host", Str(<<"api.x.io">>)),
             E("securityDefinitions", m)>>) : m \in SecuritySchemeMaps}
    \cup
    {MkObj(<<E("openapi", Str(<<"3.0.0">>)), E("servers", ServersX),
             E("components", IF m = Absent THEN Absent ELSE Obj(<<E("securitySchemes", m)>>))>>) :
        m \in SecuritySchemeMaps}
    \cup
    {Obj(<<E("openapi", Str(<<"3.0.0">>)), E("components", Null)>>)}

Response(description) == Obj(<<E("description", Str(<<description>>))>>)

\* a response whose body is an array of objects
UserListResponse ==
    Obj(<<E("description", Str(<<"ok">>)),
          E("content", Obj(<<E("application/json", Obj(<<
              E("schema", Obj(<<
                  E("type", Str(<<"array">>)),
                  E("items", Obj(<<
                      E("type", Str(<<"object">>)),
                      E("required", Arr(<<Str(<<"id">>)>>)),
                      E("properties", Obj(<<
                          E("id", Obj(<<E("type", Str(<<"integer">>)),
                                        E("required", Bool(FALSE))>>)),
                          E("name", Obj(<<E("type", Str(<<"string">>)),
                                          E("required", Bool(TRUE))>>))>>))>>))>>))>>))>>))>>)

\* a Swagger-2 style response: the schema stands in the response itself
CreatedResponse ==
    Obj(<<E("description", Str(<<"created">>)),
          E("schema", Obj(<<E("type", Str(<<"string">>))>>))>>)

\* a response whose schema is an array of primitives
NameListResponse ==
    Obj(<<E("description", Str(<<"names">>)),
          E("content", Obj(<<E("application/json", Obj(<<
              E("schema", Obj(<<E("type", Str(<<"array">>)),
                                E("items", Obj(<<E("type", Str(<<"string">>))>>))>>))>>))>>))>>)

UsersItem ==
    Obj(<<E("get", Obj(<<E("operationId", Str(<<"listUsers">>)),
                         E("tags", Arr(<<Str(<<"Users">>)>>)),
                         E("summary", Str(<<"List users">>)),
                         E("parameters", Arr(<<
                             Obj(<<E("name", Str(<<"limit">>)), E("in", Str(<<"query">>)),
                                   E("schema", Obj(<<E("type", Str(<<"integer">>))>>))>>)>>)),
                         E("responses", Obj(<<E("200", UserListResponse),
                                              E("429", Response("Too many requests"))>>))>>)),
          E("post", Obj(<<E("requestBody", Obj(<<
                             E("required", Bool(TRUE)),
                             E("content", Obj(<<E("application/json", Obj(<<
                                 E("schema", Obj(<<
                                     E("type", Str(<<"object">>)),
                                     E("required", Arr(<<Str(<<"name">>)>>)),
                                     E("properties", Obj(<<
                                         E("name", Obj(<<E("type", Str(<<"string">>))>>)),
                                         E("tags", Obj(<<E("type", Str(<<"array">>)),
                                                         E("items", Obj(<<E("type", Str(<<"string">>))>>))>>)),
                                         E("owner", Obj(<<E("type", Str(<<"object">>)),
                                                          E("required", Arr(<<Str(<<"id">>)>>)),
                                                          E("properties", Obj(<<
                                                              E("id", Obj(<<E("type", Str(<<"integer">>))>>))>>))>>))>>))>>))>>))>>))>>)),
                          E("responses", Obj(<<E("201", CreatedResponse)>>))>>)),
          E("put", Obj(<<E("requestBody", Obj(<<
                            E("content", Obj(<<
                                E("application/xml", Obj(<<
                                    E("schema", Obj(<<E("type", Str(<<"string">>))>>))>>)),
                                E("application/json", Obj(<<
                                    E("schema", Obj(<<
                                        E("type", Str(<<"object">>)),
                                        E("properties", Obj(<<
                                            E("name", Obj(<<E("type", Str(<<"string">>))>>))>>))>>))>>))>>))>>)),
                         E("responses", Obj(<<E("200", NameListResponse)>>))>>)),
          E("patch", Obj(<<E("requestBody", Obj(<<
                              E("content", Obj(<<
                                  E("text/plain", Obj(<<E("example", Str(<<"hi">>))>>))>>))>>)),
                           E("responses", Obj(<<E("200", Response("ok"))>>))>>))>>)

UserItem ==
    Obj(<<E("parameters", Arr(<<
              Obj(<<E("name", Str(<<"id">>)), E("in", Str(<<"path">>)), E("required", Bool(TRUE))>>)>>)),
          E("get", Obj(<<E("operationId", Str(<<"getUser">>)),
                         E("parameters", Arr(<<
                             Obj(<<E("name", Str(<<"id">>)), E("in", Str(<<"path">>)),
                                   E("required", Bool(TRUE)),
                                   E("description", Str(<<"User id">>)),
                                   E("schema", Obj(<<E("type", Str(<<"integer">>))>>))>>)>>)),
                         E("responses", Obj(<<E("200", Response("ok")),
                                              E("404", Response("missing"))>>))>>)),
          E("delete", Obj(<<E("security", Arr(<<>>)),
                            E("deprecated", Bool(TRUE)),
                            E("responses", Obj(<<E("204", Response("gone"))>>))>>))>>)

NamelessParamItem ==
    Obj(<<E("get", Obj(<<E("parameters", Arr(<<Obj(<<E("in", Str(<<"query">>))>>)>>)),
                         E("responses", Obj(<<>>))>>))>>)

\* a Swagger-2 style item: a body and a formData parameter, an operationId that
\* /users uses too, no tags, a HEAD operation, paging parameters
MembersItem ==
    Obj(<<E("head", Obj(<<E("responses", Obj(<<E("200", Response("ok"))>>))>>)),
          E("get", Obj(<<E("operationId", Str(<<"listUsers">>)),
                         E("parameters", Arr(<<
                             Obj(<<E("name", Str(<<"Limit">>)), E("in", Str(<<"query">>))>>),
                             Obj(<<E("name", Str(<<"pageSize">>)), E("in", Str(<<"query">>))>>),
                             Obj(<<E("name", Str(<<"cursor">>)), E("in", Str(<<"query">>)),
                                   E("description", Str(<<"Next page">>))>>),
                             Obj(<<E("name", Str(<<"offset">>)), E("in", Str(<<"query">>))>>)>>)),
                         E("responses", Obj(<<E("200", Response("ok")),
                                              E("429", Response("Slow down"))>>))>>)),
          E("post", Obj(<<E("parameters", Arr(<<
                              Obj(<<E("name", Str(<<"body">>)), E("in", Str(<<"body">>)),
                                    E("required", Bool(TRUE)),
                                    E("schema", Obj(<<E("type", Str(<<"object">>))>>))>>),
                              Obj(<<E("name", Str(<<"file">>)), E("in", Str(<<"formData">>)),
                                    E("type", Str(<<"file">>))>>)>>)),
                          E("responses", Obj(<<E("201", Response("created"))>>))>>))>>)

PathChoices ==
    {EP(<<"/", "users">>, UsersItem),
     EP(<<"/", "users", "/", "{", "id", "}">>, UserItem),
     EP(<<"/", "members">>, MembersItem),
     EP(<<"/", "x">>, Null),
     EP(<<"/", "y">>, NamelessParamItem)}

PathMaps == {Obj(q) : q \in DistinctSeqsUpTo(PathChoices, MaxPaths)}

BearerSchemes ==
    Obj(<<E("bearerAuth", Obj(<<E("type", Str(<<"http">>)), E("scheme", Str(<<"bearer">>))>>))>>)

PathDocs ==
    {MkObj(<<E("openapi", Str(<<"3.0.0">>)), E("info", InfoT), E("servers", ServersX),
             E("security", sec),
             E("components", Obj(<<E("securitySchemes", BearerSchemes)>>)),
             E("paths", pm)>>) :
        pm \in PathMaps, sec \in {Absent, Arr(<<Obj(<<E("bearerAuth", Arr(<<>>))>>)>>)}}
    \cup
    {MkObj(<<E("swagger", Str(<<"2.0">>)), E("host", Str(<<"api.x.io">>)),
             E("securityDefinitions", BearerSchemes),
             E("paths", pm)>>) : pm \in PathMaps}

\* documents with no version key or with one that is falsy, and values that are no object
OddDocs ==
    {Obj(<<>>),
     Obj(<<E("info", InfoT)>>),
     Obj(<<E("openapi", Null)>>),
     Obj(<<E("swagger", EmptyStr), E("host", Str(<<"api.x.io">>))>>)}

ScalarDocs == {Null, Num(5), Bool(TRUE), Arr(<<>>)}

-----------------------------------------------------------------------------
(* The inputs: texts *)

Segments ==
    {Blank,
     Prose,
     Heading(1, <<"Pet API">>),
     EndpointLine("bare", "GET", <<"/", "users">>),
     EndpointLine("backtick", "post", <<"/", "users", "/", "{", "id", "}">>),
     EndpointLine("bold", "DELETE", <<"/", "orders", "/", ":", "id">>),
     EndpointLine("bare", "GET", <<"/", "users", "/", "{", "id", "}">>),
     EndpointLine("bare", "POST", <<"/", "users", "/", ":", "id", "/">>),
     CurlLine("GET", Url("https", <<"api.x.io">>, <<"/", "users">>)),
     CurlLine("PUT", Url("https", <<"api.x.io">>, <<"/", "users", "/", "{", "id", "}">>)),
     CurlLine("", Url("https", <<"api.x.io">>, <<"/", "v1", "/", "orders">>)),
     CurlLine("POST", Url("https", <<"<", "host", ">">>, <<"/", "users">>)),
     BaseUrlLine(Url("https", <<"api.x.io">>, <<"/", "v1", "/">>)),
     UrlLine(Url("http", <<"x.io">>, <<"/", "api", "/", "v2", "/", "users">>))}

\* the words and phrases the lexical checks react to
Cues ==
    {Cue("Bearer token"),
     Cue("X-API-Key"),
     Cue("api_key"),
     Cue("api-key"),
     Cue("Basic Auth"),
     Cue("OAuth"),
     Cue("429"),
     Cue("cursor")}

\* texts of lines and texts of cues
Texts == SeqsUpTo(Segments, MaxSegments) \cup SeqsUpTo(Cues, MaxCues)

-----------------------------------------------------------------------------
(* The inputs: request bodies.  An input string is the record of what the    *)
(* code can observe of it:                                                    *)
(*   first    "blank" (empty or whitespace only), "brace" (the trimmed input *)
(*            starts with an opening brace) or "other"                         *)
(*   keyLine  some line starts with openapi or swagger, optional whitespace   *)
(*            and a colon                                                      *)
(*   json     the outcome of JSON.parse                                       *)
(*   yaml     the outcome of yaml.load                                        *)
(*   text     its lines                                                       *)
(* The lines of a document are prose to the text patterns; the strings tell   *)
(* how a text that is a lone literal reads.                                   *)

HasKey(doc, name) == \E i \in DOMAIN Entries(doc) : Entries(doc)[i].k = <<name>>

\* a document serialized as JSON: YAML reads the same value
JsonInput(doc) ==
    [first |-> IF doc.t = "object" THEN "brace" ELSE "other",
     keyLine |-> FALSE,
     json |-> Decoded(doc), yaml |-> Decoded(doc),
     text |-> <<Prose>>]

\* a document serialized as block-style YAML: every top-level key starts a line
YamlInput(doc) ==
    [first |-> "other",
     keyLine |-> HasKey(doc, "openapi") \/ HasKey(doc, "swagger"),
     json |-> NotDecoded, yaml |-> Decoded(doc),
     text |-> <<Prose>>]

OpenApiX == Obj(<<E("openapi", Str(<<"3.0.0">>)), E("info", InfoT), E("servers", ServersX)>>)

\* JSON that repeats a key: JSON.parse keeps the last value, yaml.load rejects the mapping
DuplicateKeyJson ==
    [first |-> "brace", keyLine |-> FALSE,
     json |-> Decoded(OpenApiX), yaml |-> NotDecoded,
     text |-> <<Prose>>]

\* JSON cut short after its first member
TruncatedJson ==
    [first |-> "brace", keyLine |-> FALSE,
     json |-> NotDecoded, yaml |-> NotDecoded,
     text |-> <<Cue("{\"openapi\": \"3.0.0\",")>>]

\* a YAML flow mapping on one line: no JSON (the keys are bare)
FlowYaml ==
    [first |-> "brace", keyLine |-> FALSE,
     json |-> NotDecoded,
     yaml |-> Decoded(Obj(<<E("openapi", Str(<<"3.0.0">>)), E("info", InfoT)>>)),
     text |-> <<Cue("{openapi: 3.0.0, info: {title: T, version: '1'}}")>>]

\* a YAML flow mapping with each member on a line of its own
FlowYamlLines ==
    [first |-> "brace", keyLine |-> TRUE,
     json |-> NotDecoded,
     yaml |-> Decoded(Obj(<<E("openapi", Str(<<"3.0.0">>))>>)),
     text |-> <<Cue("{"), Cue("openapi: 3.0.0"), Cue("}")>>]

\* a version line followed by a sequence that is never closed
BrokenYaml ==
    [first |-> "other", keyLine |-> TRUE,
     json |-> NotDecoded, yaml |-> NotDecoded,
     text |-> <<Cue("openapi: 3.0.0"), Cue("paths: [")>>]

\* a document that is only a comment: yaml.load returns undefined
CommentOnlyYaml ==
    [first |-> "other", keyLine |-> FALSE,
     json |-> NotDecoded, yaml |-> Decoded(Undef),
     text |-> <<Cue("# nothing here")>>]

\* one line of plain words: yaml.load returns them as a string
PlainWords ==
    [first |-> "other", keyLine |-> FALSE,
     json |-> NotDecoded, yaml |-> Decoded(Str(<<"Some prose.">>)),
     text |-> <<Prose>>]

ScalarText(doc) ==
    CASE doc = Null -> "null"
      [] doc = Num(5) -> "5"
      [] doc = Bool(TRUE) -> "true"
      [] OTHER -> "[]"

ScalarInput(doc) ==
    [first |-> "other", keyLine |-> FALSE,
     json |-> Decoded(doc), yaml |-> Decoded(doc),
     text |-> <<Cue(ScalarText(doc))>>]

OddText(doc) ==
    CASE doc = Obj(<<>>) -> "{}"
      [] doc = Obj(<<E("info", InfoT)>>) -> "{\"info\": {\"title\": \"T\", \"version\": \"1\"}}"
      [] doc = Obj(<<E("openapi", Null)>>) -> "{\"openapi\": null}"
      [] OTHER -> "{\"swagger\": \"\", \"host\": \"api.x.io\"}"

OddInput(doc) == [JsonInput(doc) EXCEPT !.text = <<Cue(OddText(doc))>>]

\* a text that is no document: only its lines are observed
TextInput(text) ==
    [first |-> IF \A i \in DOMAIN text : text[i].k = "blank" THEN "blank" ELSE "other",
     keyLine |-> FALSE,
     text |-> text]

FamilyDocs == SwaggerBaseDocs \cup OpenApiBaseDocs \cup AuthDocs \cup PathDocs

DocumentInputs ==
    {JsonInput(d) : d \in FamilyDocs} \cup {YamlInput(d) : d \in FamilyDocs}
    \cup {DuplicateKeyJson, BrokenYaml}

\* inputs the dispatcher may send either way
MixedInputs ==
    {OddInput(d) : d \in OddDocs} \cup {ScalarInput(d) : d \in ScalarDocs}
    \cup {TruncatedJson, FlowYaml, FlowYamlLines, CommentOnlyYaml, PlainWords}

TextInputs == {TextInput(t) : t \in Texts}

IsDocument(input) == "json" \in DOMAIN input

\* the requests: a document is sent as a document or for detection, a text as a
\* text or for detection
Requests ==
    {[content |-> c, type |-> ty] : c \in DocumentInputs, ty \in {"openapi", "auto"}}
    \cup {[content |-> c, type |-> ty] : c \in MixedInputs, ty \in {"openapi", "text", "auto"}}
    \cup {[content |-> c, type |-> ty] : c \in TextInputs, ty \in {"text", "auto"}}

-----------------------------------------------------------------------------
(* The consumers of a spec.  A call is the record of its return value and of  *)
(* the objects it was given as they are when it returns.  A generated string  *)
(* is the record of its variable parts.                                       *)

\* s.replace(pat, val): the first occurrence
ReplaceFirst(s, pat, val) ==
    LET n == Len(pat)
        hits == {i \in 1..(Len(s) - n + 1) : SubSeq(s, i, i + n - 1) = pat}
    IN IF hits = {} THEN s
       ELSE LET i == CHOOSE h \in hits : \A g \in hits : h <= g
            IN SubSeq(s, 1, i - 1) \o val \o SubSeq(s, i + n, Len(s))

\* paramValues?.[name]
paramValueOf(paramValues, name) ==
    IF IsNullish(paramValues) THEN Undef ELSE GetK(paramValues, ToStr(name))

\* paramValues?.[p.name] || p.example || p.default || fallback
valueFor(p, paramValues, fallback) ==
    OrElse(OrElse(OrElse(paramValueOf(paramValues, p.name), p.example), p.default), fallback)

braced(name) == Str(<<"{">> \o ToStr(name) \o <<"}">>)

paramsIn(ep, loc) == SelectSeq(ep.parameters, LAMBDA p : p.in = Str(<<loc>>))

RECURSIVE replacePathParams(_, _, _)
replacePathParams(path, params, paramValues) ==
    IF params = <<>> THEN path
    ELSE LET p == Head(params)
         IN replacePathParams(
                ReplaceFirst(path, braced(p.name).s,
                             ToStr(valueFor(p, paramValues, braced(p.name)))),
                Tail(params), paramValues)

resolvedPath(ep, paramValues) ==
    replacePathParams(ep.path.s, paramsIn(ep, "path"), paramValues)

buildAuthHeaderCurl(spec) ==
    LET a == spec.auth
    IN IF a.type = "bearer" THEN <<"-H Authorization: Bearer $API_TOKEN">>
       ELSE IF a.type = "apiKey" /\ Truthy(a.headerName)
       THEN <<"-H ">> \o a.headerName.s \o <<": $API_KEY">>
       ELSE IF a.type = "basic" THEN <<"-u $API_USERNAME:$API_PASSWORD">>
       ELSE <<>>

getPlaceholder(type) ==
    CASE type \in {Str(<<"integer">>), Str(<<"number">>)} -> Num(0)
      [] type = Str(<<"boolean">>) -> Bool(TRUE)
      [] type = Str(<<"array">>) -> Arr(<<>>)
      [] type = Str(<<"object">>) -> Obj(<<>>)
      [] OTHER -> Str(<<"string_value">>)

\* JSON.stringify(value, null, 2)
Stringify(value) == [t |-> "json text", of |-> value]

buildBodyJson(ep, paramValues) ==
    IF ~Truthy(ep.requestBody) THEN Stringify(Obj(<<>>))
    ELSE IF Truthy(ep.requestBody.example) THEN Stringify(ep.requestBody.example)
    ELSE LET schema == ep.requestBody.schema
         IN Stringify(Obj([i \in DOMAIN schema |->
                EP(schema[i].name.s,
                   OrElse(OrElse(OrElse(paramValueOf(paramValues, schema[i].name),
                                        schema[i].example),
                                 schema[i].default),
                          getPlaceholder(schema[i].type)))]))

queryStringOf(ep, paramValues) ==
    LET queryParams == paramsIn(ep, "query")
    IN IF queryParams = <<>> THEN <<>>
       ELSE <<"?">> \o Join([i \in DOMAIN queryParams |->
                ToStr(queryParams[i].name) \o <<"=">>
                    \o ToStr(valueFor(queryParams[i], paramValues,
                                      braced(queryParams[i].name)))], "&")

curlOf(spec, ep, paramValues) ==
    [method |-> IF ep.method # "GET" THEN <<"-X", ep.method>> ELSE <<>>,
     url |-> ToStr(spec.baseUrl) \o resolvedPath(ep, paramValues)
                \o queryStringOf(ep, paramValues),
     auth |-> buildAuthHeaderCurl(spec),
     contentType |-> IF Truthy(ep.requestBody) THEN ep.requestBody.contentType ELSE Undef,
     data |-> IF Truthy(ep.requestBody) THEN buildBodyJson(ep, paramValues) ELSE Undef]

buildCurl(spec, ep, paramValues) ==
    [value |-> curlOf(spec, ep, paramValues), spec |-> spec, ep |-> ep]

generateCurlExamples(spec) ==
    [value |-> [title |-> ToStr(spec.title),
                baseUrl |-> ToStr(spec.baseUrl),
                examples |-> [i \in DOMAIN spec.endpoints |->
                    LET ep == spec.endpoints[i]
                    IN [heading |-> OrElse(ep.summary, Str(<<ep.method, " ">> \o ep.path.s)),
                        curl |-> buildCurl(spec, ep, Undef).value]]],
     spec |-> [spec EXCEPT !.endpoints =
                  [i \in DOMAIN spec.endpoints |-> buildCurl(spec, spec.endpoints[i], Undef).ep]]]

authHeaderOf(spec) ==
    IF spec.auth.type = "bearer" THEN <<"Authorization: Bearer YOUR_TOKEN">>
    ELSE IF spec.auth.type = "apiKey" /\ Truthy(spec.auth.headerName)
    THEN spec.auth.headerName.s \o <<": YOUR_API_KEY">>
    ELSE <<>>

\* typeof val === 'string' && !val.startsWith('"') ? quoted : val
pythonLiteral(val) ==
    IF val.t = "string" /\ (val.s = <<>> \/ Head(val.s) # "\"")
    THEN <<"\"">> \o val.s \o <<"\"">>
    ELSE ToStr(val)

buildPython(spec, ep, paramValues) ==
    LET queryParams == paramsIn(ep, "query")
    IN [url |-> ToStr(spec.baseUrl) \o resolvedPath(ep, paramValues),
        headers |-> authHeaderOf(spec)
                       \o (IF Truthy(ep.requestBody)
                           THEN <<"Content-Type: application/json">> ELSE <<>>),
        params |-> [i \in DOMAIN queryParams |->
            [name |-> ToStr(queryParams[i].name),
             val |-> pythonLiteral(valueFor(queryParams[i], paramValues,
                        Str(<<"\"">> \o ToStr(queryParams[i].name) \o <<"_value", "\"">>)))]],
        data |-> IF Truthy(ep.requestBody) THEN buildBodyJson(ep, paramValues) ELSE Undef,
        call |-> <<"requests.", LowerTok(ep.method)>>
                    \o (IF queryParams # <<>> THEN <<"params=params">> ELSE <<>>)
                    \o (IF Truthy(ep.requestBody) THEN <<"json=data">> ELSE <<>>)]

buildTypeScript(spec, ep, paramValues) ==
    LET queryParams == paramsIn(ep, "query")
    IN [method |-> LowerTok(ep.method),
        url |-> ToStr(spec.baseUrl) \o resolvedPath(ep, paramValues),
        headers |-> authHeaderOf(spec)
                       \o (IF Truthy(ep.requestBody)
                           THEN <<"Content-Type: application/json">> ELSE <<>>),
        params |-> [i \in DOMAIN queryParams |->
            [name |-> ToStr(queryParams[i].name),
             val |-> ToStr(valueFor(queryParams[i], paramValues,
                        Str(ToStr(queryParams[i].name) \o <<"_value">>)))]],
        data |-> IF Truthy(ep.requestBody) THEN buildBodyJson(ep, paramValues) ELSE Undef]

generateSnippets(spec, ep, paramValues) ==
    [value |-> [curl |-> buildCurl(spec, ep, paramValues).value,
                python |-> buildPython(spec, ep, paramValues),
                typescript |-> buildTypeScript(spec, ep, paramValues)],
     spec |-> buildCurl(spec, ep, paramValues).spec,
     ep |-> buildCurl(spec, ep, paramValues).ep]

-----------------------------------------------------------------------------
(* Error guidance *)

\* parseInt(statusCode, 10); NaN, which compares false with every number, is 0
parseInt(code) ==
    CASE code = <<"200">> -> 200
      [] code = <<"201">> -> 201
      [] code = <<"204">> -> 204
      [] code = <<"404">> -> 404
      [] code = <<"429">> -> 429
      [] OTHER -> 0

\* the status codes of COMMON_ERRORS
COMMON_ERRORS == <<400, 401, 403, 404, 405, 409, 422, 429, 500>>

\* the number of elements a stable sort by keys puts before element i, plus one
Rank(keys, i) ==
    Cardinality({j \in DOMAIN keys : keys[j] < keys[i] \/ (keys[j] = keys[i] /\ j < i)}) + 1

\* items.sort((a, b) => key(a) - key(b))
SortByKeys(items, keys) ==
    [r \in DOMAIN items |-> items[CHOOSE i \in DOMAIN items : Rank(keys, i) = r]]

\* the guides of the responses the endpoint documents
documentedGuides(endpoint) ==
    LET errors == SelectSeq(endpoint.responses, LAMBDA resp : parseInt(resp.statusCode) >= 400)
    IN [i \in DOMAIN errors |->
          LET code == parseInt(errors[i].statusCode)
          IN IF code \in SeqToSet(COMMON_ERRORS)
             THEN [statusCode |-> code, common |-> TRUE,
                   description |-> OrElse(errors[i].description, Str(<<"common">>))]
             ELSE [statusCode |-> code, common |-> FALSE,
                   description |-> errors[i].description]]

alwaysInclude(endpoint) ==
    (IF endpoint.method \in {"POST", "PUT", "PATCH", "DELETE"} THEN <<400, 422>> ELSE <<>>)
        \o <<401, 404, 429, 500>>

guidesOf(endpoint) ==
    LET documented == documentedGuides(endpoint)
        presentCodes == {documented[i].statusCode : i \in DOMAIN documented}
        missing == SelectSeq(alwaysInclude(endpoint),
                             LAMBDA code : code \notin presentCodes
                                           /\ code \in SeqToSet(COMMON_ERRORS))
        guides == documented \o
                  [i \in DOMAIN missing |->
                      [statusCode |-> missing[i], common |-> TRUE,
                       description |-> Str(<<"common">>)]]
    IN SortByKeys(guides, [i \in DOMAIN guides |-> guides[i].statusCode])

\* what a variant that orders the responses of its argument in place leaves
getErrorGuidanceSortingResponses(endpoint) ==
    [value |-> guidesOf(endpoint),
     endpoint |-> [endpoint EXCEPT !.responses =
                      SortByKeys(@, [i \in DOMAIN @ |-> 0 - parseInt(@[i].statusCode)])]]

getErrorGuidance(endpoint) ==
    [value |-> guidesOf(endpoint), endpoint |-> endpoint]

-----------------------------------------------------------------------------
(* Learning paths *)

buildAuthContent(spec) ==
    LET a == spec.auth
    IN CASE a.type = "bearer" -> <<"This API uses Bearer tokens.">>
         [] a.type = "apiKey" ->
               <<"This API uses an API key. Include ">>
                   \o OrElse(a.headerName, Str(<<"X-API-Key">>)).s
         [] a.type = "basic" -> <<"This API uses Basic Auth.">>
         [] a.type = "oauth2" -> <<"This API uses OAuth 2.0.">>
         [] OTHER -> <<"Authentication method not detected.">>

buildPaginationContent(spec) ==
    LET hint == spec.paginationHints[1]
    IN <<hint.type, "-based">>
          \o Join([i \in DOMAIN hint.parameters |-> ToStr(hint.parameters[i])], ", ")

Step(title, ty, endpointId, content) ==
    [title |-> title, type |-> ty, endpointId |-> endpointId, content |-> content]

\* path.includes('{')
hasBrace(ep) == "{" \in SeqToSet(ep.path.s)

buildBasicsPath(spec) ==
    LET g == FirstIndex(spec.endpoints, LAMBDA e : e.method = "GET" /\ ~hasBrace(e))
    IN [id |-> "basics",
        steps |->
            <<Step(<<"Authentication Setup">>, "info", Undef, buildAuthContent(spec))>>
            \o (IF g # 0
                THEN <<Step(<<"Your First Request">>, "endpoint", spec.endpoints[g].id,
                            <<"GET", " ">> \o spec.endpoints[g].path.s)>>
                ELSE <<>>)
            \o (IF spec.paginationHints # <<>>
                THEN <<Step(<<"Pagination">>, "info", Undef, buildPaginationContent(spec))>>
                ELSE <<>>)
            \o <<Step(<<"Error Handling">>, "info", Undef, <<"Common HTTP errors">>)>>]

\* the first segment of the path that names a resource, <<>> when there is none
resourceOf(ep) ==
    LET segments == SelectSeq(SplitSlash(ep.path.s, <<>>), LAMBDA g : g # <<>>)
        r == FirstIndex(segments,
                LAMBDA g : Head(g) \notin {"{", ":"}
                           /\ g \notin {<<"api">>, <<"v1">>, <<"v2">>, <<"v3">>})
    IN IF r = 0 THEN <<>> ELSE segments[r]

NoOps == [list |-> Undef, get |-> Undef, create |-> Undef, update |-> Undef, del |-> Undef]

crudSlot(ep) ==
    IF ep.method = "GET" /\ ~hasBrace(ep) THEN "list"
    ELSE IF ep.method = "GET" THEN "get"
    ELSE IF ep.method = "POST" THEN "create"
    ELSE IF ep.method \in {"PUT", "PATCH"} THEN "update"
    ELSE "del"

RECURSIVE collectResources(_, _)
\* the first loop of buildCrudPath: resources in the order they were first seen
collectResources(resources, endpoints) ==
    IF endpoints = <<>> THEN resources
    ELSE LET ep == Head(endpoints)
             resource == resourceOf(ep)
             known == IF MapHas(resources, resource) THEN resources
                      ELSE Append(resources, [name |-> resource, ops |-> NoOps])
         IN IF resource = <<>> THEN collectResources(resources, Tail(endpoints))
            ELSE collectResources(
                    [i \in DOMAIN known |->
                        IF known[i].name = resource
                        THEN [known[i] EXCEPT !.ops[crudSlot(ep)] = ep.id]
                        ELSE known[i]],
                    Tail(endpoints))

opCount(ops) == Cardinality({f \in DOMAIN ops : Truthy(ops[f])})

crudSlots == <<"list", "get", "create", "update", "del">>

\* the learning path, or null
buildCrudPath(spec) ==
    LET resources == collectResources(<<>>, spec.endpoints)
        best == FirstIndex(resources,
                    LAMBDA r : \A j \in DOMAIN resources :
                                   opCount(resources[j].ops) <= opCount(r.ops))
    IN IF best = 0 \/ opCount(resources[best].ops) < 2 THEN Null
       ELSE LET ops == resources[best].ops
                present == SelectSeq(crudSlots, LAMBDA f : Truthy(ops[f]))
            IN [id |-> "crud",
                title |-> capitalize(resources[best].name),
                steps |-> [i \in DOMAIN present |->
                              Step(<<present[i], " ">> \o resources[best].name,
                                   "endpoint", ops[present[i]], <<present[i]>>)]]

\* lower.includes(kw) for some workflow keyword, on the words the inputs use
hasWorkflowKeyword(s) == \E i \in DOMAIN s : s[i] \in {"orders", "Orders"}

buildWorkflowPath(spec) ==
    LET workflowEndpoints ==
            SelectSeq(spec.endpoints,
                      LAMBDA ep : hasWorkflowKeyword(ep.path.s \o ToStr(ep.summary) \o ToStr(ep.tag)))
        n == IF Len(workflowEndpoints) < 5 THEN Len(workflowEndpoints) ELSE 5
    IN IF Len(workflowEndpoints) < 2 THEN Null
       ELSE [id |-> "workflow",
             steps |-> [i \in 1..n |->
                 LET ep == workflowEndpoints[i]
                 IN Step(OrElse(ep.summary, Str(<<"Step: ", ep.method, " ">> \o ep.path.s)).s,
                         "endpoint", ep.id, ToStr(OrElse(ep.summary, ep.path)))]]

generateLearningPaths(spec) ==
    [value |-> <<buildBasicsPath(spec)>>
                 \o (IF buildCrudPath(spec) # Null THEN <<buildCrudPath(spec)>> ELSE <<>>)
                 \o (IF buildWorkflowPath(spec) # Null THEN <<buildWorkflowPath(spec)>> ELSE <<>>),
     spec |-> spec]

-----------------------------------------------------------------------------
(* The state machine: one request, the handlers that serve it and the client *)
(* that sent it.  A request of type "auto" is the client's (parseAndGenerate); *)
(* the other types come from a caller of the route.                            *)

ParamValueSets == {Obj(<<>>), Obj(<<E("id", Str(<<"42">>))>>)}

NoNotices == [warnings |-> <<>>, todos |-> <<>>]

Init ==
    /\ \E r \in Requests : reqContent = r.content /\ reqType = r.type
    /\ pc = "sent"
    /\ normalizer = "none"
    /\ parseResult = Undef
    /\ response = Undef
    /\ ctxSpec = Null
    /\ notices = NoNotices
    /\ artifacts = Null
    /\ learningPaths = <<>>
    /\ selectedEndpoint = 0
    /\ error = Null
    /\ genSpec = Undef
    /\ output = Undef
    /\ lastOp = "init"

\* the parse route serves the request
POST ==
    /\ pc = "sent"
    /\ response' = POSTResponse(reqContent, reqType)
    /\ normalizer' = IF isBlank(reqContent) THEN "none"
                     ELSE IF routesToOpenApi(reqContent, reqType) THEN "parseOpenApiSpec"
                     ELSE "parseTextDocs"
    /\ parseResult' = IF isBlank(reqContent) THEN Undef ELSE normalize(reqContent, reqType)
    /\ pc' = "parsed"
    /\ lastOp' = "POST"
    /\ UNCHANGED <<reqContent, reqType, ctxSpec, notices, artifacts, learningPaths,
                   selectedEndpoint, error, genSpec, output>>

\* a caller of the library hands the content to the text normalizer
CallParseTextDocs ==
    /\ pc = "sent"
    /\ reqType = "text"
    /\ normalizer' = "parseTextDocs"
    /\ parseResult' = parseTextDocs(reqContent)
    /\ pc' = "called"
    /\ lastOp' = "parseTextDocs"
    /\ UNCHANGED <<reqContent, reqType, response, ctxSpec, notices, artifacts, learningPaths,
                   selectedEndpoint, error, genSpec, output>>

\* a caller of the library hands the content to the structured normalizer
CallParseOpenApiSpec ==
    /\ pc = "sent"
    /\ reqType = "openapi"
    /\ normalizer' = "parseOpenApiSpec"
    /\ parseResult' = parseOpenApiSpec(reqContent)
    /\ pc' = "called"
    /\ lastOp' = "parseOpenApiSpec"
    /\ UNCHANGED <<reqContent, reqType, response, ctxSpec, notices, artifacts, learningPaths,
                   selectedEndpoint, error, genSpec, output>>

\* parseAndGenerate after the parse response: a failure ends it in the catch block,
\* a success stores the result and posts the spec to the generate route
ParseResponded ==
    /\ pc = "parsed"
    /\ reqType = "auto"
    /\ IF response.status # 200
       THEN /\ error' = [message |-> response.error]
            /\ pc' = "failed"
            /\ UNCHANGED <<ctxSpec, notices, genSpec>>
       ELSE /\ ctxSpec' = response.spec
            /\ notices' = [warnings |-> response.warnings, todos |-> response.todos]
            /\ genSpec' = response.spec
            /\ pc' = "generating"
            /\ UNCHANGED error
    /\ lastOp' = "parseResponded"
    /\ UNCHANGED <<reqContent, reqType, normalizer, parseResult, response, artifacts,
                   learningPaths, selectedEndpoint, output>>

\* the generate route; of its four generators generateCurlExamples is the one at hand
GeneratePOST ==
    /\ pc = "generating"
    /\ response' = [status |-> 200,
                    artifacts |-> [curlExamples |-> generateCurlExamples(genSpec).value]]
    /\ genSpec' = generateCurlExamples(genSpec).spec
    /\ pc' = "generated"
    /\ lastOp' = "generateCurlExamples"
    /\ UNCHANGED <<reqContent, reqType, normalizer, parseResult, ctxSpec, notices, artifacts,
                   learningPaths, selectedEndpoint, error, output>>

\* parseAndGenerate after the generate response
GenerateResponded ==
    /\ pc = "generated"
    /\ artifacts' = response.artifacts
    /\ learningPaths' = generateLearningPaths(ctxSpec).value
    /\ ctxSpec' = generateLearningPaths(ctxSpec).spec
    /\ selectedEndpoint' = IF Len(ctxSpec.endpoints) > 0 THEN 1 ELSE selectedEndpoint
    /\ pc' = "ready"
    /\ lastOp' = "generateLearningPaths"
    /\ UNCHANGED <<reqContent, reqType, normalizer, parseResult, response, notices, error,
                   genSpec, output>>

\* what the lists of the page offer to select: an endpoint of the spec, or nothing
Selectable == IF ctxSpec = Null THEN {} ELSE 0..Len(ctxSpec.endpoints)

\* the components render from the selection: what one rendered from the previous
\* selection is no longer on the page
selectEndpoint(i) ==
    /\ pc = "ready"
    /\ selectedEndpoint' = i
    /\ output' = Undef
    /\ lastOp' = "selectEndpoint"
    /\ UNCHANGED <<reqContent, reqType, pc, normalizer, parseResult, response, ctxSpec,
                   notices, artifacts, learningPaths, error, genSpec>>

\* the ErrorGuidance component renders
ErrorGuidance ==
    /\ pc = "ready"
    /\ selectedEndpoint # 0
    /\ LET call == getErrorGuidance(ctxSpec.endpoints[selectedEndpoint])
       IN /\ output' = call.value
          /\ ctxSpec' = [ctxSpec EXCEPT !.endpoints[selectedEndpoint] = call.endpoint]
    /\ lastOp' = "getErrorGuidance"
    /\ UNCHANGED <<reqContent, reqType, pc, normalizer, parseResult, response, notices,
                   artifacts, learningPaths, selectedEndpoint, error, genSpec>>

\* the SnippetGenerator component renders with the values typed into the form
SnippetGenerator(paramValues) ==
    /\ pc = "ready"
    /\ selectedEndpoint # 0
    /\ LET ep == ctxSpec.endpoints[selectedEndpoint]
           call == generateSnippets(ctxSpec, ep, paramValues)
       IN /\ output' = call.value
          /\ ctxSpec' = IF call.ep # ep
                        THEN [call.spec EXCEPT !.endpoints[selectedEndpoint] = call.ep]
                        ELSE call.spec
    /\ lastOp' = "generateSnippets"
    /\ UNCHANGED <<reqContent, reqType, pc, normalizer, parseResult, response, notices,
                   artifacts, learningPaths, selectedEndpoint, error, genSpec>>

\* reset clears the context, and with the spec gone the components that rendered
\* from it are gone too; the content can be submitted again
reset ==
    /\ pc \in {"ready", "failed"}
    /\ ctxSpec' = Null
    /\ notices' = NoNotices
    /\ artifacts' = Null
    /\ learningPaths' = <<>>
    /\ selectedEndpoint' = 0
    /\ error' = Null
    /\ output' = Undef
    /\ pc' = "sent"
    /\ lastOp' = "reset"
    /\ UNCHANGED <<reqContent, reqType, normalizer, parseResult, response, genSpec>>

Next ==
    \/ POST
    \/ CallParseTextDocs
    \/ CallParseOpenApiSpec
    \/ ParseResponded
    \/ GeneratePOST
    \/ GenerateResponded
    \/ \E i \in Selectable : selectEndpoint(i)
    \/ ErrorGuidance
    \/ \E paramValues \in ParamValueSets : SnippetGenerator(paramValues)
    \/ reset

Spec == Init /\ [][Next]_vars

-----------------------------------------------------------------------------
(* Properties *)

\* the decoded document of the request
doc == decodeDocument(reqContent).v

\* the structured normalizer ran on an input that decodes
ranOnDecoded == normalizer = "parseOpenApiSpec" /\ decodeDocument(reqContent).ok

\* C1: parseOpenApiSpec throws only when the input decodes neither as JSON nor as
\* YAML; whatever the decoded value is, it returns a spec with warnings and todos.
C1_ThrowsOnlyOnDecodeFailure == ranOnDecoded => parseResult.ok

\* C2: parseOpenApiSpec decodes as JSON first and as YAML only when JSON fails: an
\* input either decoder reads never yields the parse error; when both fail the call
\* throws 'Could not parse input as JSON or YAML' with no partial result, and the
\* parse route answers 500 with exactly that message.
C2_JsonThenYamlElseParseError ==
    normalizer = "parseOpenApiSpec" =>
        /\ (reqContent.json.ok \/ reqContent.yaml.ok) => parseResult # Thrown(ParseErrorMessage)
        /\ (~reqContent.json.ok /\ ~reqContent.yaml.ok) =>
              /\ parseResult = Thrown(ParseErrorMessage)
              /\ pc = "parsed" => response = [status |-> 500, error |-> ParseErrorMessage]

C2_Witness ==
    /\ normalizer = "parseOpenApiSpec"
    /\ ~reqContent.json.ok /\ ~reqContent.yaml.ok
    /\ pc = "parsed"
    /\ response.status = 500

SpecFields ==
    {"title", "description", "version", "baseUrl", "auth", "endpoints", "tags",
     "paginationHints", "rateLimitHints", "sourceType"}

\* C3: parseTextDocs never throws: for every text, the empty and the blank ones and
\* those with a curl example whose URL is malformed included, it returns a complete
\* spec with sourceType 'text' together with warnings and todos.
C3_TextNormalizerTotal ==
    normalizer = "parseTextDocs" =>
        /\ parseResult.ok
        /\ DOMAIN parseResult = {"ok", "spec", "warnings", "todos"}
        /\ DOMAIN parseResult.spec = SpecFields
        /\ parseResult.spec.sourceType = "text"

hasMalformedCurl(text) ==
    \E i \in DOMAIN text : text[i].k = "curl" /\ newURL(text[i].url).t = "throw"

C3_Witness ==
    /\ normalizer = "parseTextDocs"
    /\ hasMalformedCurl(reqContent.text)
    /\ parseResult.ok
    /\ parseResult.spec.endpoints # <<>>

\* the dispatcher has just decided for a request of type auto
dispatched == lastOp = "POST" /\ reqType = "auto" /\ ~isBlank(reqContent)

Consumers == {"generateCurlExamples", "generateLearningPaths", "getErrorGuidance", "generateSnippets"}

\* C6: a consumer leaves the spec and the endpoint it receives as they were:
\* generateCurlExamples (and buildCurl under it) the spec the generate route was
\* sent, generateLearningPaths, getErrorGuidance and generateSnippets (and buildCurl
\* under it) the spec of the context and the selected endpoint in it, in every
\* field and in the order of endpoints, parameters and responses.
C6_ConsumersLeaveSpecUnchanged ==
    [][lastOp' \in Consumers =>
          IF lastOp' = "generateCurlExamples" THEN genSpec' = genSpec /\ ctxSpec' = ctxSpec
          ELSE ctxSpec' = ctxSpec]_vars

C6_Witness ==
    /\ lastOp = "getErrorGuidance"
    /\ Len(ctxSpec.endpoints[selectedEndpoint].responses) >= 2
    /\ ctxSpec.endpoints[selectedEndpoint].responses[1].statusCode = <<"200">>
    /\ ctxSpec = parseResult.spec

\* the scheme C7 names: the first entry of schemes, https when there is none
claimedScheme == IF HasLength(Get(doc, "schemes")) THEN ToStr(Index0(Get(doc, "schemes")))
                 ELSE <<"https">>

\* C7: for a Swagger-2 document with a host the produced baseUrl is scheme://host
\* followed by basePath when there is one, scheme being the first entry of schemes
\* (https when absent); without a basePath it has no trailing slash.
C7_SwaggerBaseUrl ==
    (ranOnDecoded /\ parseResult.ok /\ Truthy(Get(doc, "swagger")) /\ Truthy(Get(doc, "host"))) =>
        /\ parseResult.spec.baseUrl =
              Str(claimedScheme \o <<"://">> \o ToStr(Get(doc, "host"))
                      \o ToStr(OrElse(Get(doc, "basePath"), EmptyStr)))
        /\ ~Truthy(Get(doc, "basePath")) => Last(parseResult.spec.baseUrl.s) # "/"

\* an OpenAPI-3 document that declares at least one server was normalized
hasServers ==
    /\ ranOnDecoded /\ parseResult.ok
    /\ ~Truthy(Get(doc, "swagger"))
    /\ HasLength(Get(doc, "servers"))

firstServerUrl == Get(Index0(Get(doc, "servers")), "url")

baseUrlGiven ==
    IF normalizer = "parseTextDocs" THEN extractBaseUrlText(reqContent.text) # Null
    ELSE /\ ~IsNullish(doc)
         /\ IF Truthy(Get(doc, "swagger")) THEN Truthy(Get(doc, "host"))
            ELSE HasLength(Get(doc, "servers")) /\ Truthy(firstServerUrl)

baseUrlTodoCount(todos) ==
    Cardinality({i \in DOMAIN todos : todos[i] \in {TodoBaseUrlOpenApi, TodoBaseUrlText}})

\* C9: in both normalizers, when no base URL can be determined the call does not
\* throw, baseUrl is the placeholder https://api.example.com and todos holds exactly
\* one base-URL todo; when one is determined, todos holds no base-URL todo and
\* baseUrl is not the placeholder.
C9_BaseUrlFallback ==
    (normalizer = "parseTextDocs" \/ ranOnDecoded) =>
        IF baseUrlGiven
        THEN parseResult.ok =>
                /\ baseUrlTodoCount(parseResult.todos) = 0
                /\ parseResult.spec.baseUrl # Str(Placeholder)
        ELSE /\ parseResult.ok
             /\ parseResult.spec.baseUrl = Str(Placeholder)
             /\ baseUrlTodoCount(parseResult.todos) = 1

\* the document declares no security scheme: the scheme map is absent or empty
noSchemeDeclared ==
    LET schemeMap == IF Truthy(Get(doc, "swagger")) THEN Get(doc, "securityDefinitions")
                     ELSE GetOpt(Get(doc, "components"), "securitySchemes")
    IN IsNullish(schemeMap) \/ schemeMap = Obj(<<>>)

\* C10: for a structured document that declares no security scheme the produced auth
\* has type 'none', warnings holds exactly one entry (the one about the missing
\* schemes) and todos holds nothing about auth: only a base-URL todo, if any.
C10_NoSchemeMeansNone ==
    (ranOnDecoded /\ parseResult.ok /\ noSchemeDeclared) =>
        /\ parseResult.spec.auth.type = "none"
        /\ parseResult.warnings = <<WarnNoSecurity>>
        /\ \A i \in DOMAIN parseResult.todos : parseResult.todos[i] = TodoBaseUrlOpenApi

C10_Witness ==
    /\ ranOnDecoded /\ parseResult.ok
    /\ ~IsNullish(doc)
    /\ GetOpt(Get(doc, "components"), "securitySchemes") = Obj(<<>>)
    /\ parseResult.spec.auth.type = "none"
    /\ Len(parseResult.warnings) = 1

\* the security schemes the document declares, where its version keeps them
declaredSchemes ==
    IF Truthy(Get(doc, "swagger")) THEN Get(doc, "securityDefinitions")
    ELSE GetOpt(Get(doc, "components"), "securitySchemes")

\* the first of them in document order
firstScheme == Entries(declaredSchemes)[1].v

\* a document with at least one declared scheme was normalized
normalizedWithScheme == ranOnDecoded /\ parseResult.ok /\ ~noSchemeDeclared

\* the scheme says HTTP authentication of the given kind
declaresHttp(s, kind) ==
    /\ Get(s, "type") = Str(<<"http">>)
    /\ Get(s, "scheme").t = "string"
    /\ ToLowerCase(Get(s, "scheme").s) = <<kind>>

\* the scheme says basic authentication: type http with scheme basic, and type basic
\* in a Swagger-2 document
declaresBasic(s) ==
    \/ declaresHttp(s, "basic")
    \/ Truthy(Get(doc, "swagger")) /\ Get(s, "type") = Str(<<"basic">>)

\* C11: auth is derived from the first declared scheme alone: an API key gives apiKey
\* (headerName when it is in a header, queryParamName when in the query), HTTP bearer
\* gives bearer, basic authentication gives basic, OAuth2 gives oauth2 with its flows,
\* for a Swagger-2 securityDefinitions entry as for an OpenAPI-3 one.
C11_FirstSchemeDecidesVariant ==
    normalizedWithScheme =>
        LET s == firstScheme
            a == parseResult.spec.auth
        IN /\ Get(s, "type") = Str(<<"apiKey">>) =>
                 /\ a.type = "apiKey"
                 /\ Get(s, "in") = Str(<<"header">>) => a.headerName = Get(s, "name")
                 /\ Get(s, "in") = Str(<<"query">>) => a.queryParamName = Get(s, "name")
           /\ declaresHttp(s, "bearer") => a.type = "bearer"
           /\ declaresBasic(s) => a.type = "basic"
           /\ Get(s, "type") = Str(<<"oauth2">>) =>
                 a.type = "oauth2" /\ a.flows = Get(s, "flows")

\* the declared type is one of the keywords the mapping knows, in any letter case
matchesKeyword(ty) ==
    ty.t = "string" /\ ToLowerCase(ty.s) \in {<<"apikey">>, <<"http">>, <<"oauth2">>}

\* part occurs in whole
Contains(whole, part) ==
    \E i \in 0..(Len(whole) - Len(part)) : SubSeq(whole, i + 1, i + Len(part)) = part

\* the first declared scheme gives a type and the type is no known keyword
firstSchemeTypeUnknown ==
    /\ ranOnDecoded
    /\ ~noSchemeDeclared
    /\ ~IsNullish(firstScheme)
    /\ HasKey(firstScheme, "type")
    /\ ~matchesKeyword(Get(firstScheme, "type"))

\* C12: when the type of the first declared scheme matches no known keyword the
\* structured normalizer does not fail and returns auth of type 'unknown' whose
\* description contains the type name exactly as the document declares it.
C12_UnknownKeepsDeclaredType ==
    firstSchemeTypeUnknown =>
        /\ parseResult.ok
        /\ parseResult.spec.auth.type = "unknown"
        /\ Contains(parseResult.spec.auth.description.s, ToStr(Get(firstScheme, "type")))

\* a normalizer returned a spec
produced == normalizer \in {"parseOpenApiSpec", "parseTextDocs"} /\ parseResult.ok

producedEndpoints == parseResult.spec.endpoints

\* C13: in every produced spec the endpoint ids are pairwise distinct: of two
\* operations that would get the same id (the same operationId in a document, method
\* and path that slug to the same string in a text) the later one is dropped.
C13_EndpointIdsDistinct ==
    produced =>
        \A i, j \in DOMAIN producedEndpoints :
            producedEndpoints[i].id = producedEndpoints[j].id => i = j

\* the (method, path) pair of an endpoint
pairOf(ep) == [method |-> ep.method, path |-> ep.path.s]

\* the pairs the endpoint lines of a text name, in any of the three forms
linePairs(text) ==
    {[method |-> UpperTok(text[i].method), path |-> text[i].path] :
        i \in {j \in DOMAIN text : text[j].k = "endpoint"}}

\* the pairs its curl examples name: the method given (GET when none is) and the
\* path component of the URL, for the URLs that parse
curlPairs(text) ==
    {[method |-> IF text[i].method = "" THEN "GET" ELSE UpperTok(text[i].method),
      path |-> newURL(text[i].url).pathname] :
        i \in {j \in DOMAIN text : text[j].k = "curl" /\ newURL(text[j].url).t = "url"}}

FromCurl == Str(<<"Extracted from curl example">>)

\* C14: in every produced spec no two endpoints share a (method, path) pair; the text
\* normalizer keeps one endpoint for each pair that an endpoint line or a curl
\* example names, and it is the first one found: the patterns are tried before the
\* curl examples, so a pair that a line names is never the curl endpoint.
C14_MethodPathPairsDistinct ==
    produced =>
        /\ \A i, j \in DOMAIN producedEndpoints :
              pairOf(producedEndpoints[i]) = pairOf(producedEndpoints[j]) => i = j
        /\ normalizer = "parseTextDocs" =>
              /\ {pairOf(producedEndpoints[i]) : i \in DOMAIN producedEndpoints}
                    = linePairs(reqContent.text) \cup curlPairs(reqContent.text)
              /\ \A i \in DOMAIN producedEndpoints :
                    (producedEndpoints[i].description = FromCurl)
                        <=> pairOf(producedEndpoints[i]) \notin linePairs(reqContent.text)

C14_Witness ==
    /\ produced
    /\ normalizer = "parseTextDocs"
    /\ linePairs(reqContent.text) \cap curlPairs(reqContent.text) # {}
    /\ Len(reqContent.text) = 2
    /\ Len(producedEndpoints) = 1
    /\ producedEndpoints[1].description # FromCurl

producedTags == parseResult.spec.tags

\* the places (group, position) where an id stands in the groups' endpointIds
placesOf(id) ==
    {<<g, k>> \in (DOMAIN producedTags) \X (1..Len(producedEndpoints)) :
        k \in DOMAIN producedTags[g].endpointIds /\ producedTags[g].endpointIds[k] = id}

allPlaces ==
    {<<g, k>> \in (DOMAIN producedTags) \X (1..Len(producedEndpoints)) :
        k \in DOMAIN producedTags[g].endpointIds}

\* the operation of the document an endpoint was made from
operationOf(ep) == Get(GetK(Get(doc, "paths"), ep.path.s), LowerTok(ep.method))

\* the tag the operation declares first, 'default' when it declares none
declaredTag(ep) == OrElse(Index0(Get(operationOf(ep), "tags")), Str(<<"default">>))

\* C15: in every produced spec each endpoint belongs to exactly one tag group: its id
\* stands exactly once in all the groups' endpointIds, in the group named by the
\* endpoint's tag ('default' for an untagged operation), and the groups hold as many
\* ids as there are endpoints.
C15_OneTagGroupPerEndpoint ==
    produced =>
        /\ \A i \in DOMAIN producedEndpoints :
              LET ep == producedEndpoints[i]
              IN /\ Cardinality(placesOf(ep.id)) = 1
                 /\ \A pl \in placesOf(ep.id) : producedTags[pl[1]].name = ep.tag
                 /\ normalizer = "parseOpenApiSpec" => ep.tag = declaredTag(ep)
        /\ Cardinality(allPlaces) = Len(producedEndpoints)

Locations == {Str(<<"path">>), Str(<<"query">>), Str(<<"header">>), Str(<<"cookie">>)}

\* C16: every parameter of every endpoint of a produced spec has its location in
\* {path, query, header, cookie}, for every document (the Swagger-2 ones that declare
\* body or formData parameters included) and every text.
C16_ParameterLocations ==
    produced =>
        \A i \in DOMAIN producedEndpoints :
            \A k \in DOMAIN producedEndpoints[i].parameters :
                producedEndpoints[i].parameters[k].in \in Locations

\* what the operation's own security declaration says when it has one, what the
\* document-level one says when it has none
requiresAuth(op) ==
    IF HasKey(op, "security") THEN HasLength(Get(op, "security"))
    ELSE HasLength(Get(doc, "security"))

\* C17: for a document the auth flag of an endpoint tells whether its operation
\* requires authentication: an operation-level security declaration overrides the
\* document-level one (an empty list gives false even under a global requirement) and
\* an operation without one inherits the global requirement.
C17_OperationSecurityOverrides ==
    (produced /\ normalizer = "parseOpenApiSpec") =>
        \A i \in DOMAIN producedEndpoints :
            producedEndpoints[i].auth = requiresAuth(operationOf(producedEndpoints[i]))

OperationKeys == {"get", "post", "put", "patch", "delete"}

\* some operation of the document declares a response with status code 429
declares429 ==
    \E i \in DOMAIN Entries(Get(doc, "paths")) : \E m \in OperationKeys :
        HasKey(Get(Get(Entries(Get(doc, "paths"))[i].v, m), "responses"), "429")

\* the endpoints that carry a 429 response, by their place in the endpoint order
with429 ==
    {i \in DOMAIN producedEndpoints :
        \E k \in DOMAIN producedEndpoints[i].responses :
            producedEndpoints[i].responses[k].statusCode = <<"429">>}

\* the description of the 429 response of an endpoint
descriptionOf429(ep) ==
    ep.responses[CHOOSE k \in DOMAIN ep.responses : ep.responses[k].statusCode = <<"429">>].description

\* C18: for every document rateLimitHints has one entry when some operation declares
\* a 429 response and none otherwise, however many operations declare one, and the
\* entry is taken from the first such endpoint in endpoint order.
C18_OneRateLimitHint ==
    (produced /\ normalizer = "parseOpenApiSpec") =>
        LET hints == parseResult.spec.rateLimitHints
        IN /\ Len(hints) = IF declares429 THEN 1 ELSE 0
           /\ declares429 =>
                 /\ with429 # {}
                 /\ LET first == CHOOSE i \in with429 : \A j \in with429 : i <= j
                    IN /\ hints[1].statusCode = 429
                       /\ hints[1].description = descriptionOf429(producedEndpoints[first])

C18_Witness ==
    /\ produced /\ normalizer = "parseOpenApiSpec"
    /\ Cardinality(with429) = 2
    /\ \E i, j \in with429 :
          /\ i < j
          /\ descriptionOf429(producedEndpoints[i]) = Str(<<"Slow down">>)
          /\ descriptionOf429(producedEndpoints[j]) = Str(<<"Too many requests">>)
    /\ Len(parseResult.spec.rateLimitHints) = 1

UsersIdPath == <<"/", "users", "/", "{", "id", "}">>

\* the text holds the line GET /users/{id}
hasGetUsersIdLine(text) ==
    \E i \in DOMAIN text : text[i] = EndpointLine("bare", "GET", UsersIdPath)

\* C19: for every text with a line 'GET /users/{id}', whatever surrounds it, the
\* endpoints of the text normalizer include one with method GET and path /users/{id}
\* whose parameters are exactly one path parameter named id.
C19_GetUsersIdExtracted ==
    (normalizer = "parseTextDocs" /\ hasGetUsersIdLine(reqContent.text)) =>
        /\ parseResult.ok
        /\ \E i \in DOMAIN producedEndpoints :
              LET ep == producedEndpoints[i]
              IN /\ ep.method = "GET"
                 /\ ep.path = Str(UsersIdPath)
                 /\ Len(ep.parameters) = 1
                 /\ ep.parameters[1].name = Str(<<"id">>)
                 /\ ep.parameters[1].in = Str(<<"path">>)

C19_Witness ==
    /\ normalizer = "parseTextDocs"
    /\ Len(reqContent.text) = 2
    /\ reqContent.text[1] = EndpointLine("backtick", "post", UsersIdPath)
    /\ reqContent.text[2] = EndpointLine("bare", "GET", UsersIdPath)
    /\ Len(producedEndpoints) = 2
    /\ producedEndpoints[2].method = "GET"

\* the names of the {name} tokens of a path
bracedNames(path) ==
    {path[i + 1] : i \in {j \in 1..(Len(path) - 2) :
        path[j] = "{" /\ path[j + 1] \notin {"{", "}"} /\ path[j + 2] = "}"}}

\* C20: for every endpoint of the text normalizer, from a pattern or from a curl
\* example, each {name} token of its path has a parameter with that name, in 'path'
\* and required; every parameter the text normalizer produces is typed 'string' and
\* required.
C20_TextPathParameters ==
    (produced /\ normalizer = "parseTextDocs") =>
        \A i \in DOMAIN producedEndpoints :
            LET ep == producedEndpoints[i]
            IN /\ \A name \in bracedNames(ep.path.s) :
                     \E k \in DOMAIN ep.parameters :
                        /\ ep.parameters[k].name = Str(<<name>>)
                        /\ ep.parameters[k].in = Str(<<"path">>)
                        /\ ep.parameters[k].required = TRUE
               /\ \A k \in DOMAIN ep.parameters :
                     /\ ep.parameters[k].type = Str(<<"string">>)
                     /\ ep.parameters[k].required = TRUE

C20_Witness ==
    /\ produced /\ normalizer = "parseTextDocs"
    /\ Len(producedEndpoints) = 2
    /\ bracedNames(producedEndpoints[1].path.s) = {"id"}
    /\ Len(producedEndpoints[1].parameters) = 1
    /\ producedEndpoints[2].description = FromCurl
    /\ producedEndpoints[2].method = "PUT"
    /\ producedEndpoints[2].parameters = <<>>

\* the text is empty or holds whitespace only
isWhitespaceOnly(text) == \A i \in DOMAIN text : text[i].k = "blank"

\* C21: the text normalizer reports 'no endpoints' exactly when it found none: the
\* result has no endpoint if and only if warnings holds the 'No endpoints could be
\* extracted' warning and todos the 'Manually add endpoint definitions' todo; an empty
\* or whitespace-only text returns normally with no endpoint, that warning and that
\* todo.
C21_NoEndpointsReported ==
    normalizer = "parseTextDocs" =>
        /\ parseResult.ok
        /\ (producedEndpoints = <<>>) <=> (WarnNoEndpoints \in SeqToSet(parseResult.warnings))
        /\ (producedEndpoints = <<>>) <=> (TodoNoEndpoints \in SeqToSet(parseResult.todos))
        /\ isWhitespaceOnly(reqContent.text) => producedEndpoints = <<>>

C21_Witness ==
    /\ normalizer = "parseTextDocs"
    /\ reqContent.text # <<>>
    /\ isWhitespaceOnly(reqContent.text)
    /\ parseResult.ok
    /\ WarnNoEndpoints \in SeqToSet(parseResult.warnings)
    /\ TodoNoEndpoints \in SeqToSet(parseResult.todos)

SupportedMethods == <<"GET", "POST", "PUT", "PATCH", "DELETE">>

\* the path items of the document, in document order
pathItems == Entries(Get(doc, "paths"))

\* the place of an endpoint's path among the path items, of its method among the five
pathPlace(ep) == CHOOSE i \in DOMAIN pathItems : pathItems[i].k = ep.path.s
methodPlace(ep) == CHOOSE m \in DOMAIN SupportedMethods : SupportedMethods[m] = ep.method

\* the (path item, method) pairs with the method declared on the path item
declaredPairs ==
    {<<i, m>> \in (DOMAIN pathItems) \X (DOMAIN SupportedMethods) :
        HasKey(pathItems[i].v, LowerTok(SupportedMethods[m]))}

\* C22: the structured normalizer produces exactly one endpoint per (path item,
\* method) pair with the method one of GET, POST, PUT, PATCH, DELETE and declared on
\* the path item: as many endpoints as such pairs, none for other keys of a path
\* item, ordered by path in document order and within a path in the order GET, POST,
\* PUT, PATCH, DELETE, each with its operationId as id when one is declared.
C22_OneEndpointPerOperation ==
    (produced /\ normalizer = "parseOpenApiSpec") =>
        /\ Len(producedEndpoints) = Cardinality(declaredPairs)
        /\ \A k \in DOMAIN producedEndpoints :
              LET ep == producedEndpoints[k]
              IN /\ ep.method \in SeqToSet(SupportedMethods)
                 /\ \E i \in DOMAIN pathItems : pathItems[i].k = ep.path.s
                 /\ <<pathPlace(ep), methodPlace(ep)>> \in declaredPairs
                 /\ HasKey(operationOf(ep), "operationId") =>
                       ep.id = Get(operationOf(ep), "operationId")
        /\ \A k, l \in DOMAIN producedEndpoints :
              k < l =>
                 LET a == producedEndpoints[k]
                     b == producedEndpoints[l]
                 IN \/ pathPlace(a) < pathPlace(b)
                    \/ pathPlace(a) = pathPlace(b) /\ methodPlace(a) < methodPlace(b)

C22_Witness ==
    /\ produced /\ normalizer = "parseOpenApiSpec"
    /\ Len(pathItems) = 2
    /\ HasKey(pathItems[1].v, "head")
    /\ HasKey(pathItems[2].v, "parameters")
    /\ Len(producedEndpoints) = 4
    /\ producedEndpoints[2].method = "POST"
    /\ producedEndpoints[3].method = "GET"
    /\ producedEndpoints[3].id = Str(<<"getUser">>)

\* the path item of the document an endpoint was made from
pathItemOf(ep) == GetK(Get(doc, "paths"), ep.path.s)

\* the parameter declarations of a path item or an operation, in document order
declaredParameters(holder) == Elements(Get(holder, "parameters"))

\* a produced parameter is the declaration decl
madeFrom(p, decl) ==
    /\ p.name = Get(decl, "name")
    /\ p.in = Get(decl, "in")
    /\ p.description = OrElse(Get(decl, "description"), EmptyStr)

\* C23: for a document the parameters of an endpoint are the declarations of its path
\* item followed by those of its operation, each group in document order and nothing
\* removed: their number is the sum of the two lists' lengths and a name declared at
\* both levels stands twice, the operation's entry later.
C23_PathItemThenOperationParameters ==
    (produced /\ normalizer = "parseOpenApiSpec") =>
        \A k \in DOMAIN producedEndpoints :
            LET ep == producedEndpoints[k]
                shared == declaredParameters(pathItemOf(ep))
                own == declaredParameters(operationOf(ep))
            IN /\ Len(ep.parameters) = Len(shared) + Len(own)
               /\ \A i \in DOMAIN shared : madeFrom(ep.parameters[i], shared[i])
               /\ \A j \in DOMAIN own : madeFrom(ep.parameters[Len(shared) + j], own[j])

C23_Witness ==
    /\ produced /\ normalizer = "parseOpenApiSpec"
    /\ \E k \in DOMAIN producedEndpoints :
          LET ep == producedEndpoints[k]
          IN /\ Len(ep.parameters) = 2
             /\ ep.parameters[1].name = ep.parameters[2].name
             /\ ep.parameters[1].description = EmptyStr
             /\ ep.parameters[2].description = Str(<<"User id">>)

JsonMediaType == <<"application/json">>

\* the content of the request body an OpenAPI-3 operation declares
declaredContent(ep) == GetOpt(Get(operationOf(ep), "requestBody"), "content")

\* the media type the body is to come from: application/json when it is declared, the
\* first declared one otherwise
chosenMediaType(content) ==
    IF \E i \in DOMAIN Keys(content) : Keys(content)[i] = JsonMediaType
    THEN JsonMediaType
    ELSE Keys(content)[1]

\* an OpenAPI-3 document was normalized and the endpoint's operation declares content
declaresContent(ep) ==
    /\ ~Truthy(Get(doc, "swagger"))
    /\ Len(Keys(declaredContent(ep))) > 0

\* C24: for an OpenAPI-3 operation whose requestBody declares content the produced
\* request body comes from application/json when it is declared and from the first
\* declared media type otherwise; the flattened schema and the reported contentType
\* both belong to that media type, wherever application/json stands among the
\* declared ones.
C24_BodyFromOneMediaType ==
    (produced /\ normalizer = "parseOpenApiSpec") =>
        \A k \in DOMAIN producedEndpoints :
            LET ep == producedEndpoints[k]
                chosen == chosenMediaType(declaredContent(ep))
            IN declaresContent(ep) =>
                  /\ ep.requestBody # NoBody
                  /\ ep.requestBody.schema
                        = flattenSchema(Get(GetK(declaredContent(ep), chosen), "schema"))
                  /\ ep.requestBody.contentType = Str(chosen)

\* the schema of the media type a content gives a body from, undefined when the
\* content declares none
contentSchema(content) ==
    IF Len(Keys(content)) > 0
    THEN Get(GetK(content, chosenMediaType(content)), "schema")
    ELSE Undef

\* the schema the request body of an endpoint is flattened from
bodySchemaOf(ep) ==
    IF Truthy(Get(doc, "swagger"))
    THEN Get(SelectSeq(declaredParameters(operationOf(ep)),
                       LAMBDA p : Get(p, "in") = Str(<<"body">>))[1], "schema")
    ELSE contentSchema(declaredContent(ep))

\* the schema response number k of an endpoint is flattened from
responseSchemaOf(ep, k) ==
    LET resp == GetK(Get(operationOf(ep), "responses"), ep.responses[k].statusCode)
    IN IF Truthy(Get(resp, "content")) THEN contentSchema(Get(resp, "content"))
       ELSE Get(resp, "schema")

\* the flattened schemas of the produced spec, each with the schema it came from
flattenings ==
    UNION {
        (IF producedEndpoints[i].requestBody # NoBody
         THEN {[fields |-> producedEndpoints[i].requestBody.schema,
                schema |-> bodySchemaOf(producedEndpoints[i])]}
         ELSE {})
        \cup {[fields |-> producedEndpoints[i].responses[k].schema.xs,
               schema |-> responseSchemaOf(producedEndpoints[i], k)] :
                 k \in DOMAIN producedEndpoints[i].responses} :
        i \in DOMAIN producedEndpoints}

bearsProperties(schema) ==
    Get(schema, "type") = Str(<<"object">>) \/ Truthy(Get(schema, "properties"))

RECURSIVE flattensAs(_, _)
\* fields is what C25 says of the flattening of schema
flattensAs(fields, schema) ==
    IF ~Truthy(schema) THEN fields = <<>>
    ELSE IF bearsProperties(schema)
    THEN LET props == Entries(Get(schema, "properties"))
             names == SeqToSet(Elements(Get(schema, "required")))
         IN /\ Len(fields) = Len(props)
            /\ \A i \in DOMAIN props :
                  /\ fields[i].name = Str(props[i].k)
                  /\ fields[i].required = (Str(props[i].k) \in names)
    ELSE IF Get(schema, "type") = Str(<<"array">>)
    THEN /\ Len(fields) = 1
         /\ fields[1].name = Str(<<"items">>)
         /\ fields[1].nested.t = "array"
         /\ flattensAs(fields[1].nested.xs, Get(schema, "items"))
    ELSE /\ Len(fields) = 1
         /\ fields[1].name = Str(<<"value">>)
         /\ fields[1].type = OrElse(Get(schema, "type"), Str(<<"string">>))

\* C25: flattenSchema yields, for an object schema or one bearing properties, one
\* field per property in declaration order with required true exactly for the names
\* of the schema's required list; for an array schema a single field 'items' whose
\* nested is the flattening of the item schema; for any other schema a single field
\* 'value' with the schema's primitive type; for an absent schema the empty list.
C25_FlattenSchemaShape ==
    (produced /\ normalizer = "parseOpenApiSpec") =>
        \A f \in flattenings : flattensAs(f.fields, f.schema)

C25_Witness ==
    /\ produced /\ normalizer = "parseOpenApiSpec"
    /\ \E f \in flattenings :
          /\ Get(f.schema, "type") = Str(<<"array">>)
          /\ Len(f.fields) = 1
          /\ Len(f.fields[1].nested.xs) = 2
          /\ f.fields[1].nested.xs[1].required = TRUE
          /\ f.fields[1].nested.xs[2].required = FALSE
    /\ \E f \in flattenings : f.schema = Undef /\ f.fields = <<>>
    /\ \E f \in flattenings :
          Get(f.schema, "type") = Str(<<"string">>) /\ f.fields[1].name = Str(<<"value">>)

StructuredTypes == {Str(<<"object">>), Str(<<"array">>)}

RECURSIVE nestedWhereStructured(_)
\* at every depth a field of type object or array carries nested fields and a field
\* of primitive type carries none
nestedWhereStructured(fields) ==
    \A i \in DOMAIN fields :
        IF fields[i].type \in StructuredTypes
        THEN /\ fields[i].nested.t = "array"
             /\ nestedWhereStructured(fields[i].nested.xs)
        ELSE fields[i].nested = Undef

\* C26: in every SchemaField that schema flattening produces, at any depth, a field
\* of type 'object' or 'array' carries nested child fields (the flattening of its
\* properties or of its item schema), the array-typed properties of an object schema
\* included, and a field of primitive type carries no nested.
C26_NestedForObjectsAndArrays ==
    (produced /\ normalizer = "parseOpenApiSpec") =>
        \A f \in flattenings : nestedWhereStructured(f.fields)

RECURSIVE nestingOf(_)
\* the number of levels of nested below a sequence of fields: one per descent of
\* the flattening
nestingOf(fields) ==
    LET below == {1 + nestingOf(fields[i].nested.xs) :
                      i \in {j \in DOMAIN fields : fields[j].nested # Undef}}
    IN IF below = {} THEN 0 ELSE CHOOSE d \in below : \A e \in below : e <= d

RECURSIVE schemaDepth(_)
\* the number of nesting levels of properties/items of a schema: one per property
\* level and one for the item level of an array
schemaDepth(schema) ==
    IF schema.t # "object" THEN 0
    ELSE LET props == Values(Get(schema, "properties"))
             below == {1 + schemaDepth(props[i]) : i \in DOMAIN props}
                      \cup (IF \/ Get(schema, "type") = Str(<<"array">>)
                               \/ Get(schema, "items") # Undef
                            THEN {1 + schemaDepth(Get(schema, "items"))}
                            ELSE {})
         IN IF below = {} THEN 0 ELSE CHOOSE d \in below : \A e \in below : e <= d

\* C27: schema flattening ends on every schema that is a finite tree, descending at
\* most once per nesting level of properties/items: in every spec the structured
\* normalizer has produced, no flattened schema is nested deeper than the schema it
\* was flattened from.
C27_FlattenDescendsOncePerLevel ==
    (produced /\ normalizer = "parseOpenApiSpec") =>
        \A f \in flattenings : nestingOf(f.fields) <= schemaDepth(f.schema)

C27_Witness ==
    /\ produced
    /\ normalizer = "parseOpenApiSpec"
    /\ \E f \in flattenings : nestingOf(f.fields) = 1 /\ schemaDepth(f.schema) = 1
                              /\ Get(f.schema, "type") = Str(<<"array">>)
    /\ \E f \in flattenings : nestingOf(f.fields) = 1 /\ schemaDepth(f.schema) = 2

\* the keyword set of pagination detection, as the names are listed
PaginationKeywordNames ==
    {<<"page">>, <<"limit">>, <<"offset">>, <<"cursor">>, <<"after">>, <<"before">>,
     <<"per", "_", "page">>, <<"pageSize">>, <<"page", "_", "size">>}

\* a parameter name is in the keyword set, as written or in lower case
inKeywordSet(name) ==
    name.t = "string"
    /\ (name.s \in PaginationKeywordNames \/ ToLowerCase(name.s) \in PaginationKeywordNames)

\* what a keyword parameter is classified as
classOf(lowerName) ==
    CASE lowerName \in {<<"cursor">>, <<"after">>, <<"before">>} -> "cursor"
      [] lowerName = <<"offset">> -> "offset"
      [] OTHER -> "page"

\* the parameters of all produced endpoints, in endpoint order
producedParameters == Flatten([i \in DOMAIN producedEndpoints |-> producedEndpoints[i].parameters])

\* the positions of the first parameter of each distinct lowercase keyword name
firstKeywordParameters ==
    {i \in DOMAIN producedParameters :
        /\ inKeywordSet(producedParameters[i].name)
        /\ \A j \in 1..(i - 1) :
              producedParameters[j].name.t = "string" =>
                  ToLowerCase(producedParameters[j].name.s)
                      # ToLowerCase(producedParameters[i].name.s)}

\* C28: the pagination hints of a spec the structured normalizer produced are, in
\* endpoint order, one per distinct lowercase name among the parameters whose name
\* is in the keyword set (pageSize included): each names the first parameter of
\* that name and is classified cursor for cursor/after/before, offset for offset
\* and page for the rest.
C28_OneHintPerKeywordName ==
    (produced /\ normalizer = "parseOpenApiSpec") =>
        LET hints == parseResult.spec.paginationHints
        IN /\ Len(hints) = Cardinality(firstKeywordParameters)
           /\ \A i \in firstKeywordParameters :
                LET k == Cardinality({j \in firstKeywordParameters : j <= i})
                    p == producedParameters[i]
                IN /\ hints[k].parameters = <<p.name>>
                   /\ hints[k].type = classOf(ToLowerCase(p.name.s))

\* the order text auth detection tries the schemes in
TextAuthOrder == <<"bearer", "apiKey", "basic", "oauth2">>

\* the scheme a phrase of a text is a cue for
schemeCuedBy(seg) ==
    IF seg.k # "cue" THEN "none"
    ELSE CASE seg.lit \in {"Bearer token", "Authorization: Bearer"} -> "bearer"
           [] seg.lit \in {"X-API-Key", "api_key", "api-key"} -> "apiKey"
           [] seg.lit = "Basic Auth" -> "basic"
           [] seg.lit = "OAuth" -> "oauth2"
           [] OTHER -> "none"

cuedSchemes(text) == {schemeCuedBy(text[i]) : i \in DOMAIN text} \ {"none"}

\* the earliest scheme of the order that the text has a cue for
earliestCued(text) ==
    TextAuthOrder[CHOOSE k \in DOMAIN TextAuthOrder :
                     /\ TextAuthOrder[k] \in cuedSchemes(text)
                     /\ \A m \in 1..(k - 1) : TextAuthOrder[m] \notin cuedSchemes(text)]

\* C29: text auth detection is first-match-wins over the order bearer, apiKey,
\* basic, oauth2: the auth of the text normalizer's spec is the earliest scheme of
\* that order the text has a cue for, wherever the cues stand, and the 'could not be
\* determined' warning is in the warnings if and only if the text has no cue, in
\* which case the type is 'unknown'.
C29_TextAuthFirstMatchWins ==
    (produced /\ normalizer = "parseTextDocs") =>
        LET text == reqContent.text
            warned == WarnNoAuthText \in SeqToSet(parseResult.warnings)
        IN /\ warned <=> (cuedSchemes(text) = {})
           /\ cuedSchemes(text) = {} => parseResult.spec.auth.type = "unknown"
           /\ cuedSchemes(text) # {} => parseResult.spec.auth.type = earliestCued(text)

C29_Witness ==
    /\ produced
    /\ normalizer = "parseTextDocs"
    /\ reqContent.text = <<Cue("OAuth"), Cue("Bearer token")>>
    /\ parseResult.spec.auth.type = "bearer"
    /\ WarnNoAuthText \notin SeqToSet(parseResult.warnings)

\* the api-key token the text shows first
firstApiKeyToken(text) ==
    text[CHOOSE i \in DOMAIN text :
            /\ schemeCuedBy(text[i]) = "apiKey"
            /\ \A j \in 1..(i - 1) : schemeCuedBy(text[j]) # "apiKey"].lit

\* a token that looks like a header: x-api-key in any letter case
looksLikeHeader(lit) == lit \in {"X-API-Key", "x-api-key"}

\* C30: when text auth detection returns apiKey, headerName is the matched token as
\* written if that token looks like a header (x-api-key) and the default 'X-API-Key'
\* if the match was the generic api_key / api-key phrase.
C30_ApiKeyHeaderName ==
    (produced /\ normalizer = "parseTextDocs" /\ parseResult.spec.auth.type = "apiKey") =>
        parseResult.spec.auth.headerName =
            (IF looksLikeHeader(firstApiKeyToken(reqContent.text))
             THEN Str(<<firstApiKeyToken(reqContent.text)>>)
             ELSE Str(<<"X-API-Key">>))

====
